---- MODULE Spec2Model ----
(***************************************************************************)
(* Resume / job-posting matching service: the analysis lifecycle           *)
(* (api/analysis.py, services/analysis.py) and the scoring functions of    *)
(* services/advanced_matching.py and services/job_analysis.py.             *)
(*                                                                         *)
(* Scores are Python floats; the model keeps them as integers in tenths    *)
(* of a point (Pts(80) is the score 80, Pts(90) - 3 is 89.7).              *)
(***************************************************************************)
EXTENDS Integers, Sequences, FiniteSets, TLC

----------------------------------------------------------------------------
(* Bounds of the model *)

MaxAnalyses == 2   \* analyses created by create_analysis
MaxYears    == 8   \* largest number of years drawn for resume and job
MaxEdu      == 2   \* longest resume education list drawn
MaxMatches  == 2   \* most matches of one years pattern in a job text
MaxWords    == 4   \* longest text drawn for the skill functions, in words
MaxKeywords == 2   \* longest list of job keywords drawn
MaxRuns     == 2   \* calls on the shared services that are followed
MaxCacheKeys == 2  \* (resume_data, template_id) pairs given to the PDF cache
MaxTicks    == 3   \* times the clock of the PDF cache advances

----------------------------------------------------------------------------
(* Values *)

\* Python None. A nullable column or value that holds v is <<v>>, and None
\* is the empty tuple; a missing number of years is NoYears.
None == <<>>

Some(v) == <<v>>

NoYears == 0 - 1   \* "years_required": None

Pts(n) == n * 10   \* a score of n points, in tenths

Min2(a, b) == IF a <= b THEN a ELSE b

Max2(a, b) == IF a >= b THEN a ELSE b

Abs(n) == IF n >= 0 THEN n ELSE 0 - n

\* str(e) of the exceptions the scoring code raises
TypeErrorMsg == "'>=' not supported between instances of 'int' and 'NoneType'"

AttributeErrorMsg == "'NoneType' object has no attribute 'lower'"

\* what a call yields: a returned value or a raised exception
Returned(v) == [raised |-> FALSE, value |-> v]

Raised(msg) == [raised |-> TRUE, message |-> msg]

----------------------------------------------------------------------------
(* JobAnalysisService._extract_experience_requirements                     *)
(* The job text is represented by what re.findall returns for each of the  *)
(* four years_patterns, in order: a sequence of numbers, and for the range *)
(* pattern a sequence of <<low, high>> pairs.                              *)

RangePattern == 4  \* index of r'(\d+)\s*to\s*(\d+)\s*years?' in years_patterns

RECURSIVE MaxOfSeq(_)
MaxOfSeq(s) ==
    IF Len(s) = 1 THEN s[1] ELSE Max2(s[1], MaxOfSeq(Tail(s)))

\* the loop over years_patterns: every pattern that matches overwrites
\* years_required
RECURSIVE ExtractYears(_, _, _)
ExtractYears(matches, i, years) ==
    IF i > Len(matches) THEN years
    ELSE IF matches[i] = <<>> THEN ExtractYears(matches, i + 1, years)
    ELSE IF i = RangePattern
         THEN ExtractYears(matches, i + 1, matches[i][1][2])
         ELSE ExtractYears(matches, i + 1, MaxOfSeq(matches[i]))

SeniorityLevels == <<"entry", "mid", "senior", "executive">>

\* max(level_scores.items(), key=lambda x: x[1])[0]: the first level, in
\* declaration order, that has the highest count
RECURSIVE FirstMaxLevel(_, _, _)
FirstMaxLevel(counts, i, best) ==
    IF i > Len(SeniorityLevels) THEN SeniorityLevels[best]
    ELSE IF counts[i] > counts[best] THEN FirstMaxLevel(counts, i + 1, i)
    ELSE FirstMaxLevel(counts, i + 1, best)

\* text is <<year matches per pattern, level pattern counts per level>>
_extract_experience_requirements(year_matches, level_counts) ==
    [years_required |-> ExtractYears(year_matches, 1, NoYears),
     level          |-> FirstMaxLevel(level_counts, 2, 1)]

\* EnhancedNLPService.enhanced_extract_experience: the resume side.
\* years is the list of numbers the four patterns find, counts the keyword
\* counts per seniority level.
RECURSIVE MaxYearsFound(_, _)
MaxYearsFound(years, acc) ==
    IF years = <<>> THEN acc
    ELSE MaxYearsFound(Tail(years), Max2(acc, Head(years)))

enhanced_extract_experience(years, level_counts) ==
    [total_years     |-> MaxYearsFound(years, 0),
     seniority_level |-> IF \E i \in 1..Len(level_counts) : level_counts[i] > 0
                         THEN FirstMaxLevel(level_counts, 2, 1)
                         ELSE "unknown"]

----------------------------------------------------------------------------
(* AdvancedMatchingService._experience_matching_analysis *)

\* level_hierarchy.get(level, 2)
LevelHierarchy(level) ==
    CASE level = "entry"     -> 1
      [] level = "mid"       -> 2
      [] level = "senior"    -> 3
      [] level = "executive" -> 4
      [] OTHER               -> 2

\* experience_decay_factor = 0.1 point per excess year: one tenth
OverQualifiedPenalty(excess_years) == Min2(excess_years * 1, Pts(20))

ExperienceBaseNoFloor(resume_years, required_years) ==
    IF required_years = NoYears
    THEN Raised(TypeErrorMsg)
    ELSE IF required_years = 0
    THEN Returned([score |-> Pts(80), experience_gap |-> 0])
    ELSE IF resume_years >= required_years
    THEN LET excess_years == resume_years - required_years
         IN  IF excess_years <= 2
             THEN Returned([score |-> Pts(90) + Min2(excess_years * Pts(5), Pts(10)),
                            experience_gap |-> 0])
             ELSE Returned([score |-> Pts(90) - OverQualifiedPenalty(excess_years),
                            experience_gap |-> 0])
    ELSE LET gap == required_years - resume_years
         IN  IF gap <= 1 THEN Returned([score |-> Pts(70), experience_gap |-> gap])
             ELSE IF gap <= 2 THEN Returned([score |-> Pts(50), experience_gap |-> gap])
             ELSE Returned([score |-> Pts(50) - gap * Pts(10),
                            experience_gap |-> gap])

\* lines 299-322: the base score and the gap; comparing an int with None
\* raises TypeError
ExperienceBase(resume_years, required_years) ==
    IF required_years = NoYears
    THEN Raised(TypeErrorMsg)
    ELSE IF required_years = 0
    THEN Returned([score |-> Pts(80), experience_gap |-> 0])
    ELSE IF resume_years >= required_years
    THEN LET excess_years == resume_years - required_years
         IN  IF excess_years <= 2
             THEN Returned([score |-> Pts(90) + Min2(excess_years * Pts(5), Pts(10)),
                            experience_gap |-> 0])
             ELSE Returned([score |-> Pts(90) - OverQualifiedPenalty(excess_years),
                            experience_gap |-> 0])
    ELSE LET gap == required_years - resume_years
         IN  IF gap <= 1 THEN Returned([score |-> Pts(70), experience_gap |-> gap])
             ELSE IF gap <= 2 THEN Returned([score |-> Pts(50), experience_gap |-> gap])
             ELSE Returned([score |-> Max2(Pts(20), Pts(50) - gap * Pts(10)),
                            experience_gap |-> gap])

\* lines 324-339: the seniority adjustment added to the base score
LevelAdjustment(resume_level, job_level) ==
    IF resume_level # "unknown" /\ job_level # "unknown"
    THEN LET r == LevelHierarchy(resume_level)
             j == LevelHierarchy(job_level)
         IN  IF r = j THEN Pts(5)
             ELSE IF Abs(r - j) = 1 THEN Pts(2)
             ELSE IF r < j - 1 THEN 0 - Pts(10)
             ELSE 0
    ELSE 0

LevelMatch(resume_level, job_level) ==
    /\ resume_level # "unknown"
    /\ job_level # "unknown"
    /\ LevelHierarchy(resume_level) = LevelHierarchy(job_level)

_experience_matching_analysis(resume_experience, job_experience) ==
    LET base == ExperienceBase(resume_experience.total_years,
                               job_experience.years_required)
    IN  IF base.raised THEN base
        ELSE Returned(
               [score          |-> base.value.score
                                   + LevelAdjustment(resume_experience.seniority_level,
                                                     job_experience.level),
                resume_years   |-> resume_experience.total_years,
                required_years |-> job_experience.years_required,
                level_match    |-> LevelMatch(resume_experience.seniority_level,
                                              job_experience.level),
                experience_gap |-> base.value.experience_gap])

----------------------------------------------------------------------------
(* AdvancedMatchingService._education_matching_analysis *)

\* Text is a sequence of characters; str.lower() maps the upper-case ones.
LowerChar(c) == IF c = "C" THEN "c" ELSE IF c = "S" THEN "s" ELSE c

Lower(s) == [i \in 1..Len(s) |-> LowerChar(s[i])]

\* Python's "a in b" on strings
IsSubstring(a, b) ==
    \E k \in 0..(Len(b) - Len(a)) : \A i \in 1..Len(a) : b[k + i] = a[i]

\* self.nlp_service.education_levels, in declaration order
EducationLevels == <<"phd", "masters", "bachelors", "associates", "certificate", "high_school">>

\* self.education_hierarchy.get(level, 0)
EducationHierarchy(level) ==
    CASE level = "high_school" -> 1
      [] level = "certificate" -> 2
      [] level = "associates"  -> 3
      [] level = "bachelors"   -> 4
      [] level = "masters"     -> 5
      [] level = "phd"         -> 6
      [] OTHER                 -> 0

\* any(keyword in degree.lower() for keyword in education_levels[level]) for
\* the degree texts of the model: "Master of Science" contains "master", "ma"
\* and the associates keyword "as"; "Diploma" contains "ma" and "diploma",
\* which is a keyword of certificate and of high_school.
DegreeMatchesLevel(degree, level) ==
    CASE degree = "PhD"               -> level = "phd"
      [] degree = "Master of Science" -> level \in {"masters", "associates"}
      [] degree = "BSc"               -> level = "bachelors"
      [] degree = "Diploma"           -> level \in {"masters", "certificate", "high_school"}
      [] OTHER                        -> FALSE

\* lines 376-381: the loop over education_levels for one degree
RECURSIVE HighestOfDegree(_, _, _)
HighestOfDegree(degree, i, resume_highest) ==
    IF i > Len(EducationLevels) THEN resume_highest
    ELSE LET level == EducationLevels[i]
         IN  IF /\ DegreeMatchesLevel(degree, level)
                /\ \/ resume_highest = "unknown"
                   \/ EducationHierarchy(level) > EducationHierarchy(resume_highest)
             THEN HighestOfDegree(degree, i + 1, level)
             ELSE HighestOfDegree(degree, i + 1, resume_highest)

\* lines 372-381: the loop over the resume's education entries
RECURSIVE ResumeHighest(_, _)
ResumeHighest(resume_education, resume_highest) ==
    IF resume_education = <<>> THEN resume_highest
    ELSE ResumeHighest(Tail(resume_education),
                       HighestOfDegree(Head(resume_education).degree, 1, resume_highest))

\* lines 386-412: the score before the field-of-study check
EducationLevelScore(resume_highest, job_required_level, degree_required) ==
    IF degree_required /\ resume_highest # "unknown"
    THEN LET resume_hierarchy_score == EducationHierarchy(resume_highest)
             job_hierarchy_score    == EducationHierarchy(job_required_level)
         IN  [degree_requirement_met |-> TRUE,
              score |-> IF job_hierarchy_score > 0
                        THEN IF resume_hierarchy_score >= job_hierarchy_score
                             THEN Pts(85) + Min2((resume_hierarchy_score - job_hierarchy_score) * Pts(5), Pts(15))
                             ELSE Max2(Pts(40), Pts(70) - (job_hierarchy_score - resume_hierarchy_score) * Pts(15))
                        ELSE Pts(70)]
    ELSE IF ~degree_required
    THEN [degree_requirement_met |-> TRUE, score |-> Pts(80)]
    ELSE [degree_requirement_met |-> FALSE, score |-> Pts(50)]

\* lines 421-422: resume_field and job_field.lower() in resume_field
\*                or resume_field in job_field.lower()
FieldMatches(resume_field, job_field) ==
    \/ resume_field # <<>> /\ IsSubstring(Lower(job_field), resume_field)
    \/ IsSubstring(resume_field, Lower(job_field))

\* lines 417-425: one bonus for every entry that matches some job field (the
\* break leaves the loop over job_fields only)
RECURSIVE FieldBonus(_, _)
FieldBonus(resume_education, job_fields) ==
    IF resume_education = <<>> THEN 0
    ELSE (IF \E j \in 1..Len(job_fields) :
                 FieldMatches(Lower(Head(resume_education).field), job_fields[j])
          THEN Pts(10) ELSE 0)
         + FieldBonus(Tail(resume_education), job_fields)

\* edu.get("degree", "").lower() and edu.get("field", "").lower() raise
\* AttributeError on a null degree or field
NullDegree(resume_education) ==
    \E i \in 1..Len(resume_education) : resume_education[i].degree = "null"

NullField(resume_education) ==
    \E i \in 1..Len(resume_education) : resume_education[i].field = <<"null">>

_education_matching_analysis(resume_education, job_education) ==
    IF resume_education = <<>>
    THEN Returned([score |-> Pts(50), degree_requirement_met |-> FALSE,
                   field_match |-> FALSE])
    ELSE IF NullDegree(resume_education)
    THEN Raised(AttributeErrorMsg)
    ELSE LET resume_highest == ResumeHighest(resume_education, "unknown")
             level == EducationLevelScore(resume_highest, job_education.level,
                                          job_education.degree_required)
             bonus == FieldBonus(resume_education, job_education.fields)
         IN  IF job_education.fields # <<>> /\ NullField(resume_education)
             THEN Raised(AttributeErrorMsg)
             ELSE Returned([score |-> level.score + bonus,
                            degree_requirement_met |-> level.degree_requirement_met,
                            field_match |-> bonus > 0])

----------------------------------------------------------------------------
(* AdvancedMatchingService._calculate_weighted_scores and                  *)
(* comprehensive_match_analysis                                            *)

\* weights, in hundredths
WeightsEqual == [skills |-> 20, experience |-> 20, keywords |-> 20,
                 education |-> 20, ats |-> 20]

Weights == [skills |-> 35, experience |-> 25, keywords |-> 20,
            education |-> 15, ats |-> 5]

Components == {"skills", "experience", "keywords", "education", "ats"}

RECURSIVE SumOver(_, _)
SumOver(S, f) ==
    IF S = {} THEN 0
    ELSE LET c == CHOOSE x \in S : TRUE IN f[c] + SumOver(S \ {c}, f)

\* weighted_total / total_weight. Component scores are in tenths and the
\* weights in hundredths, so the total is in thousandths of a point.
_calculate_weighted_scores(component_scores) ==
    LET weighted_total == SumOver(Components,
                                  [c \in Components |-> component_scores[c] * Weights[c]])
        total_weight   == SumOver(Components, Weights)
    IN  IF total_weight > 0 THEN (weighted_total * 100) \div total_weight ELSE 0

\* the "priority" that _generate_detailed_recommendations writes into the
\* recommendation of each type (lines 546, 559, 573, 589, 603)
recommendation_priority(type) ==
    CASE type = "critical_skills" -> "high"
      [] type = "experience"      -> "high"
      [] type = "keywords"        -> "medium"
      [] type = "ats_formatting"  -> "medium"
      [] type = "education"       -> "low"

_generate_detailed_recommendations_education_first(skills, experience, education, keywords, ats) ==
    (IF ~education.degree_requirement_met THEN <<"education">> ELSE <<>>)
    \o (IF skills.missing_critical_skills # <<>> THEN <<"critical_skills">> ELSE <<>>)
    \o (IF experience.experience_gap > 0 THEN <<"experience">> ELSE <<>>)
    \o (IF keywords.keyword_coverage < Pts(60) THEN <<"keywords">> ELSE <<>>)
    \o (IF ats.ats_score < Pts(70) THEN <<"ats_formatting">> ELSE <<>>)

\* _generate_detailed_recommendations: the types of the rules that fire, in
\* the order the code appends them
_generate_detailed_recommendations(skills, experience, education, keywords, ats) ==
    (IF skills.missing_critical_skills # <<>> THEN <<"critical_skills">> ELSE <<>>)
    \o (IF experience.experience_gap > 0 THEN <<"experience">> ELSE <<>>)
    \o (IF keywords.keyword_coverage < Pts(60) THEN <<"keywords">> ELSE <<>>)
    \o (IF ats.ats_score < Pts(70) THEN <<"ats_formatting">> ELSE <<>>)
    \o (IF ~education.degree_requirement_met THEN <<"education">> ELSE <<>>)

\* resume and job are the prepared resume data and texts.  The skills, keyword
\* and ATS analyses of lines 54-71 are carried by the job and the resume as
\* their results for these texts; the experience and education analyses are
\* computed, and an exception of either leaves the function.
comprehensive_match_analysis(resume, job) ==
    LET job_experience    == _extract_experience_requirements(job.year_matches,
                                                              job.level_counts)
        resume_experience == enhanced_extract_experience(resume.years,
                                                         resume.level_counts)
        skills     == job.skills_analysis
        experience == _experience_matching_analysis(resume_experience, job_experience)
        education  == _education_matching_analysis(resume.education, job.education)
        keywords   == job.keyword_analysis
        ats        == resume.ats_analysis
        total      == _calculate_weighted_scores(
                        [skills     |-> skills.overall_score,
                         experience |-> experience.value.score,
                         education  |-> education.value.score,
                         keywords   |-> keywords.overall_score,
                         ats        |-> ats.ats_score])
    IN  IF experience.raised THEN experience
        ELSE IF education.raised THEN education
        ELSE Returned(
          [overall_score    |-> total,
           match_percentage |-> total,
           component_scores |-> [skills_score     |-> skills.overall_score,
                                 experience_score |-> experience.value.score,
                                 education_score  |-> education.value.score,
                                 keywords_score   |-> keywords.overall_score,
                                 ats_score        |-> ats.ats_score],
           detailed_analysis |-> [skills |-> skills, experience |-> experience.value,
                                  education |-> education.value,
                                  keywords |-> keywords, ats |-> ats],
           recommendations  |-> _generate_detailed_recommendations(
                                  skills, experience.value, education.value,
                                  keywords, ats)])

----------------------------------------------------------------------------
(* The records of the database: users, resumes and job postings are fixed; *)
(* analyses are created by create_analysis.                                *)

Users == {1, 2}

\* Education texts: fields of study over the letters c, s, p
CS == <<"c", "s">>

Resumes ==
    <<[user_id |-> 1, years |-> <<5>>, level_counts |-> <<0, 0, 2, 0>>,
       education |-> <<[degree |-> "BSc", field |-> CS]>>,
       ats_analysis |-> [ats_score |-> Pts(86), issues |-> <<>>, suggestions |-> <<>>]],
      [user_id |-> 1, years |-> <<>>, level_counts |-> <<0, 0, 0, 0>>,
       education |-> <<[degree |-> "null", field |-> <<>>]>>,
       ats_analysis |-> [ats_score |-> Pts(32), issues |-> <<"content_length">>,
                         suggestions |-> <<>>]],
      [user_id |-> 2, years |-> <<2, 5>>, level_counts |-> <<0, 1, 3, 0>>,
       education |-> <<[degree |-> "PhD", field |-> CS],
                       [degree |-> "BSc", field |-> CS]>>,
       ats_analysis |-> [ats_score |-> Pts(96), issues |-> <<>>, suggestions |-> <<>>]]>>

JobPostings ==
    <<[user_id |-> 1, year_matches |-> << <<5>>, <<>>, <<>>, <<>> >>,
       level_counts |-> <<0, 0, 1, 0>>,
       education |-> [level |-> "bachelors", degree_required |-> TRUE, fields |-> <<>>],
       skills_analysis |-> [overall_score |-> Pts(50), exact_matches |-> <<"python">>,
                            missing_critical_skills |-> <<"java">>,
                            missing_important_skills |-> <<>>],
       keyword_analysis |-> [overall_score |-> Pts(65), keyword_coverage |-> Pts(50),
                             missing_keywords |-> <<"cloud">>,
                             high_density_keywords |-> <<>>]],
      [user_id |-> 1, year_matches |-> << <<>>, <<>>, <<>>, <<>> >>,
       level_counts |-> <<0, 0, 0, 0>>,
       education |-> [level |-> "unknown", degree_required |-> FALSE, fields |-> <<>>],
       skills_analysis |-> [overall_score |-> Pts(100), exact_matches |-> <<"python">>,
                            missing_critical_skills |-> <<>>,
                            missing_important_skills |-> <<>>],
       keyword_analysis |-> [overall_score |-> Pts(100), keyword_coverage |-> Pts(100),
                             missing_keywords |-> <<>>,
                             high_density_keywords |-> <<"python">>]],
      [user_id |-> 2, year_matches |-> << <<>>, <<3>>, <<>>, <<>> >>,
       level_counts |-> <<0, 0, 2, 0>>,
       education |-> [level |-> "bachelors", degree_required |-> TRUE,
                      fields |-> << <<"C", "S">> >>],
       skills_analysis |-> [overall_score |-> Pts(100), exact_matches |-> <<"python">>,
                            missing_critical_skills |-> <<>>,
                            missing_important_skills |-> <<>>],
       keyword_analysis |-> [overall_score |-> Pts(100), keyword_coverage |-> Pts(100),
                             missing_keywords |-> <<>>,
                             high_density_keywords |-> <<>>]]>>

----------------------------------------------------------------------------
(* EnhancedNLPService._load_skill_taxonomy *)

\* words of the texts drawn, and terms of the taxonomy
w_python == <<"p", "y", "t", "h", "o", "n">>
w_py == <<"p", "y">>
w_javascript == <<"j", "a", "v", "a", "s", "c", "r", "i", "p", "t">>
w_js == <<"j", "s">>
w_ruby == <<"r", "u", "b", "y">>
w_r == <<"r">>
w_docker == <<"d", "o", "c", "k", "e", "r">>
w_git == <<"g", "i", "t">>
w_required == <<"r", "e", "q", "u", "i", "r", "e", "d">>
w_preferred == <<"p", "r", "e", "f", "e", "r", "r", "e", "d">>

w_nextjs == <<"n", "e", "x", "t", ".", "j", "s">>
w_nextjs_syn == <<"n", "e", "x", "t", "j", "s">>
w_nuxtjs == <<"n", "u", "x", "t", ".", "j", "s">>
w_nuxtjs_syn == <<"n", "u", "x", "t", "j", "s">>

\* The part of the taxonomy that the model uses, in declaration
\* order: the skills and synonyms that a text over the words above can touch
\* (every other one of the source has confidence 0 for each of these texts),
\* and next.js and nuxt.js, which no such text contains.  synonyms keeps the
\* order of the dict.
_load_skill_taxonomy ==
    <<[category       |-> "programming_languages",
       primary_skills |-> <<w_python, w_javascript, w_ruby, w_r>>,
       synonyms       |-> <<[primary_skill |-> w_javascript, synonyms |-> <<w_js>>],
                            [primary_skill |-> w_python, synonyms |-> <<w_py>>]>>],
      [category       |-> "web_frameworks",
       primary_skills |-> <<w_nextjs, w_nuxtjs>>,
       synonyms       |-> <<[primary_skill |-> w_nextjs, synonyms |-> <<w_nextjs_syn>>],
                            [primary_skill |-> w_nuxtjs, synonyms |-> <<w_nuxtjs_syn>>]>>],
      [category       |-> "cloud_platforms",
       primary_skills |-> <<w_docker>>,
       synonyms       |-> <<>>],
      [category       |-> "tools_and_software",
       primary_skills |-> <<w_git, w_docker>>,
       synonyms       |-> <<>>]>>

----------------------------------------------------------------------------
(* State *)

VARIABLES
    analyses,          \* the committed rows of table "analyses"; the id is the index
    background_tasks,  \* process_analysis_task calls added by add_task, in order
    in_request,        \* ids whose create_analysis request has not returned yet
    task,              \* the process_analysis_task call that is executing
    response,          \* the latest HTTP response
    executions,        \* per analysis id: number of pipeline executions started
    finished,          \* per analysis id: how its task ended
    args,              \* arguments of a scoring function under test
    result,            \* its result
    nlp_service,       \* the attributes of the EnhancedNLPService instances
    runs,              \* calls on the shared services, each with its position
    pdf_cache          \* the PDFCache instance, its directory and the clock

vars == <<analyses, background_tasks, in_request, task, response,
          executions, finished, args, result, nlp_service, runs, pdf_cache>>

AnalysisIds == 1..MaxAnalyses

RunIds == 1..MaxRuns

ScoreFields == {"overall_score", "match_percentage", "skills_score",
                "experience_score", "education_score", "keywords_score"}

ResultFields == {"matched_skills", "missing_skills", "experience_gap",
                 "keyword_analysis", "suggestions", "missing_keywords",
                 "content_recommendations", "ats_issues", "format_suggestions",
                 "processing_time_seconds", "nlp_model_version",
                 "analysis_algorithm_version"}

\* Analysis(user_id=..., resume_id=..., job_posting_id=..., status=PENDING):
\* every other column is nullable and starts NULL
NewAnalysis(id, user_id, resume_id, job_posting_id) ==
    [f \in ScoreFields \cup ResultFields |-> None] @@
    [id |-> id, user_id |-> user_id, resume_id |-> resume_id,
     job_posting_id |-> job_posting_id, status |-> "pending",
     error_message |-> None]

\* variant: the task is added twice
AddTaskTwice(tasks, id) == Append(Append(tasks, id), id)

\* background_tasks.add_task(process_analysis_task, db_analysis.id, db)
AddTask(tasks, id) == Append(tasks, id)

\* variant: the task may run while the creating request is still executing
TaskRunnableInRequest(id) == TRUE

\* Background tasks belong to the response: they run once the request that
\* added them has returned.
TaskRunnable(id) == id \notin in_request

\* variant: the status is not set to processing
MarkProcessingSkipped(analysis) == analysis

\* analysis.status = AnalysisStatus.PROCESSING
MarkProcessing(analysis) == [analysis EXCEPT !.status = "processing"]

\* variant: the status is set to completed and the scores are left out
StoreResultsStatusOnly(analysis, match_results) ==
    [analysis EXCEPT !.status = "completed",
                     !.suggestions = Some(match_results.recommendations)]

\* lines 51-116 of analyze_resume_job_match
StoreResults(analysis, match_results) ==
    LET component_scores == match_results.component_scores
        detailed         == match_results.detailed_analysis
    IN  [analysis EXCEPT
           !.status           = "completed",
           !.overall_score    = Some(match_results.overall_score),
           !.match_percentage = Some(match_results.match_percentage),
           !.skills_score     = Some(component_scores.skills_score),
           !.experience_score = Some(component_scores.experience_score),
           !.education_score  = Some(component_scores.education_score),
           !.keywords_score   = Some(component_scores.keywords_score),
           !.matched_skills   = Some(detailed.skills.exact_matches),
           !.missing_skills   = Some(detailed.skills.missing_critical_skills
                                     \o detailed.skills.missing_important_skills),
           !.experience_gap   = Some([years_gap |-> detailed.experience.experience_gap]),
           !.keyword_analysis = Some([coverage_percentage |-> detailed.keywords.keyword_coverage,
                                      missing_keywords |-> detailed.keywords.missing_keywords,
                                      high_density |-> detailed.keywords.high_density_keywords]),
           !.suggestions      = Some(match_results.recommendations),
           !.missing_keywords = Some(detailed.keywords.missing_keywords),
           !.content_recommendations = Some(<<"improvement", "strengths">>),
           !.ats_issues       = Some(detailed.ats.issues),
           !.format_suggestions = Some(detailed.ats.suggestions),
           !.processing_time_seconds = Some("elapsed"),
           !.nlp_model_version = Some("enhanced_1.0"),
           !.analysis_algorithm_version = Some("2.0.0")]

\* variant: the error message is stored and the status is left as it is
MarkFailedKeepStatus(analysis, message) ==
    [analysis EXCEPT !.error_message = Some(message)]

\* variant: the scores of a failed run are reset to zero
MarkFailedZeroScores(analysis, message) ==
    [analysis EXCEPT !.status = "failed", !.error_message = Some(message),
                     !.overall_score = Some(0), !.match_percentage = Some(0)]

\* variant: a fixed text is stored instead of str(e)
MarkFailedGenericMessage(analysis, message) ==
    [analysis EXCEPT !.status = "failed", !.error_message = Some("Analysis failed")]

\* the except clause: analysis.status = FAILED; analysis.error_message = str(e)
MarkFailed(analysis, message) ==
    [analysis EXCEPT !.status = "failed", !.error_message = Some(message)]

Idle == [pc |-> "idle"]

LifecycleInit ==
    /\ analyses = <<>>
    /\ background_tasks = <<>>
    /\ in_request = {}
    /\ task = Idle
    /\ response = [status_code |-> 0]
    /\ executions = [id \in AnalysisIds |-> 0]
    /\ finished = [id \in AnalysisIds |-> "no"]
    /\ nlp_service = [skill_taxonomy |-> _load_skill_taxonomy]
    /\ runs = [r \in RunIds |-> Idle]
    /\ pdf_cache = [cache_metadata |-> <<>>, files |-> {}, time |-> 0]

Init ==
    /\ LifecycleInit
    /\ args = None
    /\ result = None

----------------------------------------------------------------------------
(* api/analysis.py *)

Owned(records, id, user) == records[id].user_id = user

\* create_analysis up to add_task: both records verified, the row committed
\* in state pending, the background task added
create_analysis(user, resume_id, job_posting_id) ==
    /\ Len(analyses) < MaxAnalyses
    /\ Owned(Resumes, resume_id, user)
    /\ Owned(JobPostings, job_posting_id, user)
    /\ LET id == Len(analyses) + 1
       IN  /\ analyses' = Append(analyses, NewAnalysis(id, user, resume_id, job_posting_id))
           /\ background_tasks' = AddTask(background_tasks, id)
           /\ in_request' = in_request \cup {id}
    /\ UNCHANGED <<task, response, executions, finished, args, result, nlp_service, runs, pdf_cache>>

\* create_analysis raising HTTPException 404
create_analysis_not_found(user, resume_id, job_posting_id) ==
    /\ \/ ~Owned(Resumes, resume_id, user)
       \/ ~Owned(JobPostings, job_posting_id, user)
    /\ response' = [status_code |-> 404,
                    detail |-> IF ~Owned(Resumes, resume_id, user)
                               THEN "Resume not found"
                               ELSE "Job posting not found"]
    /\ UNCHANGED <<analyses, background_tasks, in_request, task,
                   executions, finished, args, result, nlp_service, runs, pdf_cache>>

\* return db_analysis: the response carries the row as it is at the return
create_analysis_return(id) ==
    /\ id \in in_request
    /\ in_request' = in_request \ {id}
    /\ response' = [status_code |-> 200, endpoint |-> "create_analysis",
                    body |-> analyses[id]]
    /\ UNCHANGED <<analyses, background_tasks, task, executions,
                   finished, args, result, nlp_service, runs, pdf_cache>>

\* get_analysis: the row of the user, or 404
get_analysis(user, id) ==
    /\ response' = IF id <= Len(analyses) /\ analyses[id].user_id = user
                   THEN [status_code |-> 200, endpoint |-> "get_analysis",
                         body |-> analyses[id]]
                   ELSE [status_code |-> 404, detail |-> "Analysis not found"]
    /\ UNCHANGED <<analyses, background_tasks, in_request, task,
                   executions, finished, args, result, nlp_service, runs, pdf_cache>>

RemoveAt(s, i) == SubSeq(s, 1, i - 1) \o SubSeq(s, i + 1, Len(s))

\* process_analysis_task starts: it is a coroutine without an await, so one
\* call runs at a time.  It loads the analysis, the resume and the job
\* posting and calls analyze_resume_job_match, whose first step sets the
\* status to processing and commits.
process_analysis_task(i) ==
    /\ task = Idle
    /\ i \in 1..Len(background_tasks)
    /\ LET id == background_tasks[i]
       IN  /\ TaskRunnable(id)
           /\ background_tasks' = RemoveAt(background_tasks, i)
           /\ executions' = [executions EXCEPT ![id] = @ + 1]
           /\ LET analysis == MarkProcessing(analyses[id])
              IN  /\ analyses' = [analyses EXCEPT ![id] = analysis]
                  /\ task' = [pc |-> "pipeline", id |-> id, analysis |-> analysis,
                              match_results |-> None, exception |-> None]
    /\ UNCHANGED <<in_request, response, finished, args, result, nlp_service, runs, pdf_cache>>

----------------------------------------------------------------------------
(* services/analysis.py: AnalysisService.analyze_resume_job_match *)

\* lines 36-46: prepare the data and run the scoring pipeline
run_pipeline ==
    /\ task.pc = "pipeline"
    /\ LET outcome == comprehensive_match_analysis(
                          Resumes[task.analysis.resume_id],
                          JobPostings[task.analysis.job_posting_id])
       IN  task' = IF outcome.raised
                   THEN [task EXCEPT !.pc = "except",
                                     !.exception = Some(outcome.message)]
                   ELSE [task EXCEPT !.pc = "results",
                                     !.match_results = Some(outcome.value)]
    /\ UNCHANGED <<analyses, background_tasks, in_request, response,
                   executions, finished, args, result, nlp_service, runs, pdf_cache>>

\* lines 48-116: the results are assigned to the session's object
store_results ==
    /\ task.pc = "results"
    /\ task' = [task EXCEPT !.pc = "commit",
                            !.analysis = StoreResults(@, task.match_results[1])]
    /\ UNCHANGED <<analyses, background_tasks, in_request, response,
                   executions, finished, args, result, nlp_service, runs, pdf_cache>>

\* line 118: db.commit()
commit_results ==
    /\ task.pc = "commit"
    /\ analyses' = [analyses EXCEPT ![task.id] = task.analysis]
    /\ task' = [task EXCEPT !.pc = "return"]
    /\ UNCHANGED <<background_tasks, in_request, response,
                   executions, finished, args, result, nlp_service, runs, pdf_cache>>

\* lines 120-123: except Exception as e
handle_exception ==
    /\ task.pc = "except"
    /\ LET analysis == MarkFailed(task.analysis, task.exception[1])
       IN  /\ analyses' = [analyses EXCEPT ![task.id] = analysis]
           /\ task' = [task EXCEPT !.pc = "return", !.analysis = analysis]
    /\ UNCHANGED <<background_tasks, in_request, response,
                   executions, finished, args, result, nlp_service, runs, pdf_cache>>

\* line 125: return analysis; process_analysis_task ends
analyze_return ==
    /\ task.pc = "return"
    /\ finished' = [finished EXCEPT ![task.id] = "returned"]
    /\ task' = Idle
    /\ UNCHANGED <<analyses, background_tasks, in_request, response,
                   executions, args, result, nlp_service, runs, pdf_cache>>

Next ==
    \/ \E user \in Users, resume_id \in 1..Len(Resumes),
          job_posting_id \in 1..Len(JobPostings) :
          \/ create_analysis(user, resume_id, job_posting_id)
          \/ create_analysis_not_found(user, resume_id, job_posting_id)
    \/ \E id \in AnalysisIds : create_analysis_return(id)
    \/ \E user \in Users, id \in AnalysisIds : get_analysis(user, id)
    \/ \E i \in AnalysisIds : process_analysis_task(i)
    \/ run_pipeline
    \/ store_results
    \/ commit_results
    \/ handle_exception
    \/ analyze_return

Spec == Init /\ [][Next]_vars

----------------------------------------------------------------------------
(* The scoring functions on their own: the arguments are drawn in the      *)
(* initial state and one action applies the function.                      *)

ResumeLevels == {"entry", "mid", "senior", "executive", "unknown"}

ExperienceArgs ==
    [fn : {"_experience_matching_analysis"},
     resume_experience : [total_years : 0..MaxYears, seniority_level : ResumeLevels],
     job_experience : [years_required : {NoYears} \cup 0..MaxYears,
                       level : ResumeLevels]]

InitExperience ==
    /\ LifecycleInit
    /\ args \in ExperienceArgs
    /\ result = None

call_experience_matching_analysis ==
    /\ result = None
    /\ result' = Some(_experience_matching_analysis(args.resume_experience,
                                                    args.job_experience))
    /\ UNCHANGED <<analyses, background_tasks, in_request, task, response,
                   executions, finished, args, nlp_service, runs, pdf_cache>>

NextExperience == call_experience_matching_analysis

SpecExperience == InitExperience /\ [][NextExperience]_vars

\* degree texts ("null": the key is present and holds null) and fields
Degrees == {"", "PhD", "BSc", "Diploma", "null"}

ResumeFields == {<<>>, CS, <<"p">>, <<"null">>}

EducationEntries == [degree : Degrees, field : ResumeFields]

SeqsUpTo(S, n) == UNION {[1..k -> S] : k \in 0..n}

JobFieldLists == {<<>>, << <<"C", "S">> >>, << <<"c">> >>, << <<"p">>, <<"C", "S">> >>}

EducationArgs ==
    [fn : {"_education_matching_analysis"},
     resume_education : SeqsUpTo(EducationEntries, MaxEdu),
     job_education : [level : {"unknown", "bachelors", "phd"},
                      degree_required : BOOLEAN,
                      fields : JobFieldLists]]

InitEducation ==
    /\ LifecycleInit
    /\ args \in EducationArgs
    /\ result = None

call_education_matching_analysis ==
    /\ result = None
    /\ result' = Some(_education_matching_analysis(args.resume_education,
                                                   args.job_education))
    /\ UNCHANGED <<analyses, background_tasks, in_request, task, response,
                   executions, finished, args, nlp_service, runs, pdf_cache>>

NextEducation == call_education_matching_analysis

SpecEducation == InitEducation /\ [][NextEducation]_vars

----------------------------------------------------------------------------
(* Properties of the analysis lifecycle (specification Spec) *)

Rows == 1..Len(analyses)

Count(seq, x) == Cardinality({i \in 1..Len(seq) : seq[i] = x})

NoScores(analysis) == \A f \in ScoreFields : analysis[f] = None

NoResults(analysis) == \A f \in ResultFields : analysis[f] = None

AllScores(analysis) == \A f \in ScoreFields : analysis[f] # None

\* what the scoring pipeline yields for the records an analysis names
PipelineOutcome(analysis) ==
    comprehensive_match_analysis(Resumes[analysis.resume_id],
                                 JobPostings[analysis.job_posting_id])

StatusTransitions == {<<"pending", "processing">>, <<"processing", "completed">>,
                      <<"processing", "failed">>}

\* C1: in every step, the status of every analysis row either stays as it is
\* or moves pending -> processing, processing -> completed or
\* processing -> failed; a completed or failed row keeps its status.
C1_StatusTransitions ==
    [][\A id \in Rows :
          /\ id <= Len(analyses')
          /\ \/ analyses'[id].status = analyses[id].status
             \/ <<analyses[id].status, analyses'[id].status>> \in StatusTransitions]_vars

C1_Witness ==
    \E i, j \in Rows : /\ analyses[i].status = "completed"
                       /\ analyses[j].status = "failed"

C3_FailedHasNoScores ==
    /\ \A id \in Rows :
          analyses[id].status = "failed" =>
             NoScores(analyses[id]) /\ NoResults(analyses[id])
    /\ task # Idle /\ task.analysis.status = "failed" =>
          NoScores(task.analysis) /\ NoResults(task.analysis)

\* the education step raised, after the skills and experience analyses
C3_Witness ==
    \E id \in Rows : /\ analyses[id].status = "failed"
                     /\ analyses[id].error_message = Some(AttributeErrorMsg)

NoYearsStated(job) ==
    _extract_experience_requirements(job.year_matches, job.level_counts).years_required
       = NoYears

\* C4: when the job text states no number of years (and the education
\* analysis does not raise), the finished run is completed and its experience
\* score is the neutral 80 plus the seniority adjustment.
C4_NoYearsRequirementCompletes ==
    \A id \in Rows :
       LET resume == Resumes[analyses[id].resume_id]
           job    == JobPostings[analyses[id].job_posting_id]
       IN  /\ finished[id] = "returned"
           /\ NoYearsStated(job)
           /\ ~_education_matching_analysis(resume.education, job.education).raised
           => /\ analyses[id].status = "completed"
              /\ analyses[id].experience_score =
                   Some(Pts(80) + LevelAdjustment(
                      enhanced_extract_experience(resume.years, resume.level_counts).seniority_level,
                      _extract_experience_requirements(job.year_matches, job.level_counts).level))

\* C5: when the scoring pipeline raises for the records of a run, the run
\* ends failed with the exception's message as error_message, and the call
\* of analyze_resume_job_match returns; a run fails for no other reason.
C5_PipelineExceptionCaught ==
    \A id \in Rows :
       /\ finished[id] \in {"no", "returned"}
       /\ finished[id] = "returned" /\ PipelineOutcome(analyses[id]).raised =>
             /\ analyses[id].status = "failed"
             /\ analyses[id].error_message = Some(PipelineOutcome(analyses[id]).message)
       /\ analyses[id].status = "failed" => PipelineOutcome(analyses[id]).raised

C5_Witness ==
    \E id \in Rows : /\ finished[id] = "returned"
                     /\ analyses[id].status = "failed"
                     /\ analyses[id].error_message = Some(TypeErrorMsg)

\* C6: every created analysis has exactly one execution, waiting or started;
\* no analysis is executed twice, and none that is processing, completed or
\* failed has an execution waiting.
C6_OneExecutionPerAnalysis ==
    /\ \A id \in AnalysisIds :
          /\ executions[id] <= 1
          /\ Count(background_tasks, id) + executions[id] = (IF id \in Rows THEN 1 ELSE 0)
          /\ id \in Rows /\ analyses[id].status # "pending" =>
                Count(background_tasks, id) = 0
    /\ task # Idle => Count(background_tasks, task.id) = 0

C6_Witness ==
    \E id \in Rows : /\ executions[id] = 1
                     /\ analyses[id].status = "completed"
                     /\ background_tasks # <<>>

\* C7: a row, and a row returned to a client, that is completed has all score
\* fields and the recommendations set; one that is pending or processing has
\* every score field null.
ScoresAgreeWithStatus(analysis) ==
    /\ analysis.status = "completed" =>
          AllScores(analysis) /\ analysis.suggestions # None
    /\ analysis.status \in {"pending", "processing"} => NoScores(analysis)

C7_ScoresAgreeWithStatus ==
    /\ \A id \in Rows : ScoresAgreeWithStatus(analyses[id])
    /\ response.status_code = 200 => ScoresAgreeWithStatus(response.body)

C7_Witness ==
    /\ response.status_code = 200
    /\ response.endpoint = "get_analysis"
    /\ response.body.status = "completed"
    /\ task # Idle /\ task.pc = "commit"

\* C8: while the creating request has not returned, the run is pending, has
\* no scores and no execution has started; the response of create_analysis
\* carries the run pending and without scores.
C8_ScoringAfterReturn ==
    /\ \A id \in in_request :
          /\ analyses[id].status = "pending"
          /\ NoScores(analyses[id])
          /\ executions[id] = 0
    /\ response.status_code = 200 /\ response.endpoint = "create_analysis" =>
          response.body.status = "pending" /\ NoScores(response.body)

C8_Witness ==
    /\ response.status_code = 200
    /\ response.endpoint = "create_analysis"
    /\ analyses[response.body.id].status = "completed"

----------------------------------------------------------------------------
(* Properties of the scoring functions *)

\* C9: the experience score returned by _experience_matching_analysis, after
\* the seniority adjustment, lies in [0,100] (specification SpecExperience).
C9_ExperienceScoreInRange ==
    /\ result # None
    /\ args.fn = "_experience_matching_analysis"
    /\ ~result[1].raised
    => result[1].value.score >= 0 /\ result[1].value.score <= Pts(100)

\* C10: the education score returned by _education_matching_analysis,
\* including the field-of-study bonus, lies in [0,100] (specification
\* SpecEducation).
C10_EducationScoreInRange ==
    /\ result # None
    /\ args.fn = "_education_matching_analysis"
    /\ ~result[1].raised
    => result[1].value.score >= 0 /\ result[1].value.score <= Pts(100)

----------------------------------------------------------------------------
(* Texts for the skill functions.  A text is a sequence of characters; the *)
(* inputs are built from words separated by single spaces.                 *)

\* the characters that \w of the re module does not match, among those used
NonWordChars == {" ", "\n", "+", "#", ".", "-"}

IsWordChar(c) == c \notin NonWordChars

RECURSIVE Join(_)
Join(words) ==
    IF words = <<>> THEN <<>>
    ELSE IF Len(words) = 1 THEN words[1]
    ELSE words[1] \o <<" ">> \o Join(Tail(words))

\* \b between text[p] and text[p + 1] (p = 0: the start, p = Len: the end)
WordBoundary(text, p) ==
    (p >= 1 /\ IsWordChar(text[p])) # (p < Len(text) /\ IsWordChar(text[p + 1]))

\* rf'\b{re.escape(term)}\b' matches the characters after position k
MatchesAt(text, term, k) ==
    /\ k + Len(term) <= Len(text)
    /\ \A i \in 1..Len(term) : text[k + i] = term[i]
    /\ WordBoundary(text, k)
    /\ WordBoundary(text, k + Len(term))

\* len(re.findall(rf'\b{re.escape(term)}\b', text)): the matches from left
\* to right, none overlapping
RECURSIVE FindAllCount(_, _, _)
FindAllCount(text, term, k) ==
    IF k + Len(term) > Len(text) THEN 0
    ELSE IF MatchesAt(text, term, k)
         THEN 1 + FindAllCount(text, term, k + Len(term))
         ELSE FindAllCount(text, term, k + 1)

----------------------------------------------------------------------------
(* EnhancedNLPService._calculate_skill_confidence, in hundredths *)

_calculate_skill_confidence(text, skill) ==
    LET skill_lower   == Lower(skill)
        exact_matches == FindAllCount(text, skill_lower, 0)
    IN  IF exact_matches > 0 THEN Min2(50 + exact_matches * 20, 100)
        ELSE IF IsSubstring(skill_lower, text) THEN 30
        ELSE 0

----------------------------------------------------------------------------
(* EnhancedNLPService.enhanced_extract_skills *)

\* self.skill_taxonomy, an attribute that __init__ sets (line 23)
skill_taxonomy == nlp_service.skill_taxonomy

\* max_confidence over the synonyms of one primary skill
RECURSIVE MaxSynonymConfidence(_, _, _)
MaxSynonymConfidence(text, synonyms, max_confidence) ==
    IF synonyms = <<>> THEN max_confidence
    ELSE MaxSynonymConfidence(text, Tail(synonyms),
             Max2(max_confidence, _calculate_skill_confidence(text, Head(synonyms))))

InSeq(x, seq) == \E i \in 1..Len(seq) : seq[i] = x

\* lines 318-322: skills_found after the loop over primary_skills, as the
\* sequence of its items in insertion order
RECURSIVE PrimaryFound(_, _)
PrimaryFound(text, primary_skills) ==
    IF primary_skills = <<>> THEN <<>>
    ELSE LET skill      == Head(primary_skills)
             confidence == _calculate_skill_confidence(text, skill)
         IN  (IF confidence > 0
              THEN <<[skill |-> skill, confidence |-> confidence]>> ELSE <<>>)
             \o PrimaryFound(text, Tail(primary_skills))

\* lines 325-333: the loop over the synonyms dict appends the primary skills
\* found through a synonym only
RECURSIVE SynonymFound(_, _, _)
SynonymFound(text, synonyms, skills_found) ==
    IF synonyms = <<>> THEN skills_found
    ELSE LET primary_skill  == Head(synonyms).primary_skill
             max_confidence == MaxSynonymConfidence(text, Head(synonyms).synonyms, 0)
         IN  IF /\ ~InSeq(primary_skill, [i \in 1..Len(skills_found) |-> skills_found[i].skill])
                /\ max_confidence > 0
             THEN SynonymFound(text, Tail(synonyms),
                      Append(skills_found, [skill |-> primary_skill,
                                            confidence |-> max_confidence]))
             ELSE SynonymFound(text, Tail(synonyms), skills_found)

ConfidenceThreshold == 30  \* conf >= 0.3

\* lines 336-340 for one category: filtered_skills in insertion order
FilteredSkills(text, category_data) ==
    SelectSeq(SynonymFound(text, category_data.synonyms,
                           PrimaryFound(text, category_data.primary_skills)),
              LAMBDA item : item.confidence >= ConfidenceThreshold)

\* text is text.lower().  The result lists the categories that have skills,
\* in the order of the taxonomy.
RECURSIVE ExtractCategories(_, _)
ExtractCategories(text, taxonomy) ==
    IF taxonomy = <<>> THEN <<>>
    ELSE LET filtered_skills == FilteredSkills(text, Head(taxonomy))
         IN  (IF filtered_skills # <<>>
              THEN <<[category   |-> Head(taxonomy).category,
                      skills     |-> [i \in 1..Len(filtered_skills) |-> filtered_skills[i].skill],
                      confidence |-> [i \in 1..Len(filtered_skills) |-> filtered_skills[i].confidence]]>>
              ELSE <<>>)
             \o ExtractCategories(text, Tail(taxonomy))

RECURSIVE TotalSkills(_)
TotalSkills(categories) ==
    IF categories = <<>> THEN 0
    ELSE Len(Head(categories).skills) + TotalSkills(Tail(categories))

enhanced_extract_skills(text) ==
    LET extracted == ExtractCategories(Lower(text), skill_taxonomy)
    IN  [skills             |-> extracted,
         total_skills_found |-> TotalSkills(extracted)]

----------------------------------------------------------------------------
(* JobAnalysisService._prioritize_skills and _extract_job_skills *)

critical_contexts ==
    <<<<"r", "e", "q", "u", "i", "r", "e", "d">>,
      <<"m", "u", "s", "t", " ", "h", "a", "v", "e">>,
      <<"e", "s", "s", "e", "n", "t", "i", "a", "l">>,
      <<"m", "a", "n", "d", "a", "t", "o", "r", "y">>,
      <<"m", "i", "n", "i", "m", "u", "m">>,
      <<"n", "e", "c", "e", "s", "s", "a", "r", "y">>,
      <<"c", "r", "i", "t", "i", "c", "a", "l">>>>

nice_contexts ==
    <<<<"p", "r", "e", "f", "e", "r", "r", "e", "d">>,
      <<"n", "i", "c", "e", " ", "t", "o", " ", "h", "a", "v", "e">>,
      <<"b", "o", "n", "u", "s">>,
      <<"p", "l", "u", "s">>,
      <<"i", "d", "e", "a", "l">>>>

OccursAt(text, term, k) ==
    /\ k + Len(term) <= Len(text)
    /\ \A i \in 1..Len(term) : text[k + i] = term[i]

\* re.search(rf'{first}.*{second}', text): "." matches every character but
\* the newline
SearchInOrder(text, first, second) ==
    \E a \in 0..Len(text) :
        /\ OccursAt(text, first, a)
        /\ \E b \in (a + Len(first))..Len(text) :
              /\ OccursAt(text, second, b)
              /\ \A i \in (a + Len(first) + 1)..b : text[i] # "\n"

\* re.search(rf'{context}.*{skill}|{skill}.*{context}', text_lower)
ContextSearch(text, context, skill) ==
    SearchInOrder(text, context, skill) \/ SearchInOrder(text, skill, context)

\* lines 215-222
ContextScore(text, skill) ==
    2 * Cardinality({i \in 1..Len(critical_contexts) :
                         ContextSearch(text, critical_contexts[i], skill)})
    - Cardinality({i \in 1..Len(nice_contexts) :
                       ContextSearch(text, nice_contexts[i], skill)})

\* lines 224-230
Priority(mention_count, context_score) ==
    IF mention_count >= 3 \/ context_score >= 2 THEN "critical"
    ELSE IF mention_count >= 2 \/ context_score >= 1 THEN "important"
    ELSE "nice_to_have"

\* lines 195-197: all_skills
RECURSIVE AllSkills(_)
AllSkills(skills_by_category) ==
    IF skills_by_category = <<>> THEN <<>>
    ELSE Head(skills_by_category).skills \o AllSkills(Tail(skills_by_category))

_prioritize_skills(text, skills_by_category) ==
    LET text_lower == Lower(text)
        all_skills == AllSkills(skills_by_category)
        PriorityOf(skill) == Priority(FindAllCount(text_lower, Lower(skill), 0),
                                      ContextScore(text_lower, Lower(skill)))
        Placed(priority) == SelectSeq(all_skills, LAMBDA skill : PriorityOf(skill) = priority)
    IN  [critical     |-> Placed("critical"),
         important    |-> Placed("important"),
         nice_to_have |-> Placed("nice_to_have")]

_extract_job_skills(text) ==
    LET skill_analysis == enhanced_extract_skills(text)
    IN  [by_category |-> skill_analysis.skills,
         prioritized |-> _prioritize_skills(text, skill_analysis.skills),
         total_count |-> skill_analysis.total_skills_found]

----------------------------------------------------------------------------
(* The skill functions as functions of the text *)

Texts(words) == {Join(ws) : ws \in SeqsUpTo(words, MaxWords)}

ConfidenceArgs ==
    [fn    : {"_calculate_skill_confidence"},
     text  : Texts({w_python, w_py, w_ruby}),
     skill : {w_python, w_py, w_r}]

ExtractSkillsArgs ==
    [fn   : {"enhanced_extract_skills"},
     text : Texts({w_python, w_py, w_js, w_ruby})]

\* job texts: lines of words, separated by w_newline
w_newline == <<"\n">>

JobSkillsArgs ==
    [fn   : {"_extract_job_skills"},
     text : Texts({w_docker, w_python, w_required, w_preferred, w_newline})]

InitSkills ==
    /\ LifecycleInit
    /\ args \in ConfidenceArgs \cup ExtractSkillsArgs \cup JobSkillsArgs
    /\ result = None

call_calculate_skill_confidence ==
    /\ result = None
    /\ args.fn = "_calculate_skill_confidence"
    /\ result' = Some(_calculate_skill_confidence(args.text, args.skill))
    /\ UNCHANGED <<analyses, background_tasks, in_request, task, response,
                   executions, finished, args, nlp_service, runs, pdf_cache>>

call_enhanced_extract_skills ==
    /\ result = None
    /\ args.fn = "enhanced_extract_skills"
    /\ result' = Some(enhanced_extract_skills(args.text))
    /\ UNCHANGED <<analyses, background_tasks, in_request, task, response,
                   executions, finished, args, nlp_service, runs, pdf_cache>>

call_extract_job_skills ==
    /\ result = None
    /\ args.fn = "_extract_job_skills"
    /\ result' = Some(_extract_job_skills(args.text))
    /\ UNCHANGED <<analyses, background_tasks, in_request, task, response,
                   executions, finished, args, nlp_service, runs, pdf_cache>>

NextSkills ==
    \/ call_calculate_skill_confidence
    \/ call_enhanced_extract_skills
    \/ call_extract_job_skills

SpecSkills == InitSkills /\ [][NextSkills]_vars

----------------------------------------------------------------------------
(* Quotients.  A score that the code obtains by a division is kept as a    *)
(* fraction in lowest terms, in tenths of a point.                         *)

RECURSIVE Gcd(_, _)
Gcd(a, b) == IF b = 0 THEN a ELSE Gcd(b, a % b)

\* n / d for d > 0
Frac(n, d) ==
    LET g == Gcd(Abs(n), d) IN [num |-> n \div g, den |-> d \div g]

FracAdd(a, b) == Frac(a.num * b.den + b.num * a.den, a.den * b.den)

FracLeq(a, b) == a.num * b.den <= b.num * a.den

FracMin(a, b) == IF FracLeq(a, b) THEN a ELSE b

----------------------------------------------------------------------------
(* difflib.SequenceMatcher(None, a, b).ratio() >= 0.8 *)

\* the length of the common block that starts after a[i] and b[j]
RECURSIVE CommonLen(_, _, _, _)
CommonLen(a, b, i, j) ==
    IF i < Len(a) /\ j < Len(b) /\ a[i + 1] = b[j + 1]
    THEN 1 + CommonLen(a, b, i + 1, j + 1)
    ELSE 0

\* find_longest_match: the longest common block; of those the one that
\* starts earliest in a, and of those the one that starts earliest in b.
\* The pairs (i, j) are visited in that order, p = i * Len(b) + j.
RECURSIVE ScanBlocks(_, _, _, _)
ScanBlocks(a, b, p, best) ==
    IF p >= Len(a) * Len(b) THEN best
    ELSE LET i    == p \div Len(b)
             j    == p % Len(b)
             size == CommonLen(a, b, i, j)
         IN  IF size > best.size
             THEN ScanBlocks(a, b, p + 1, [i |-> i, j |-> j, size |-> size])
             ELSE ScanBlocks(a, b, p + 1, best)

LongestMatch(a, b) == ScanBlocks(a, b, 0, [i |-> 0, j |-> 0, size |-> 0])

\* get_matching_blocks: the characters in the longest block and, recursively,
\* in the pieces to its left and to its right
RECURSIVE MatchingChars(_, _)
MatchingChars(a, b) ==
    IF a = <<>> \/ b = <<>> THEN 0
    ELSE LET blk == LongestMatch(a, b)
         IN  IF blk.size = 0 THEN 0
             ELSE blk.size
                  + MatchingChars(SubSeq(a, 1, blk.i), SubSeq(b, 1, blk.j))
                  + MatchingChars(SubSeq(a, blk.i + blk.size + 1, Len(a)),
                                  SubSeq(b, blk.j + blk.size + 1, Len(b)))

\* ratio() = 2.0 * matches / (len(a) + len(b)), 1.0 for two empty strings;
\* similarity >= 0.8
Similar(a, b) ==
    IF Len(a) + Len(b) = 0 THEN TRUE
    ELSE 10 * 2 * MatchingChars(a, b) >= 8 * (Len(a) + Len(b))

----------------------------------------------------------------------------
(* AdvancedMatchingService._advanced_skills_matching.  A dict of skill     *)
(* lists by category is a function from SkillCategories to sets of skills; *)
(* a category that is not a key has the empty set.                         *)

SkillCategories == {"programming_languages", "web_frameworks", "tools_and_software"}

\* self.category_weights.get(category, 0.7), in tenths
category_weights(category) ==
    CASE category = "programming_languages" -> 10
      [] category = "web_frameworks"        -> 9
      [] category = "databases"             -> 8
      [] category = "cloud_platforms"       -> 8
      [] category = "tools_and_software"    -> 6
      [] category = "soft_skills"           -> 7
      [] OTHER                              -> 7

\* self.nlp_service.skill_taxonomy.get(category, {}).get("synonyms", {})
SynonymsOf(category) ==
    IF \E c \in 1..Len(skill_taxonomy) : skill_taxonomy[c].category = category
    THEN skill_taxonomy[CHOOSE c \in 1..Len(skill_taxonomy) :
                            skill_taxonomy[c].category = category].synonyms
    ELSE <<>>

LowerAll(skills) == {Lower(skill) : skill \in skills}

\* lines 201-227: job_skill is an exact match
IsExactMatch(resume_skills, job_skill, synonyms) ==
    LET job_skill_lower == Lower(job_skill)
        resume_lower    == LowerAll(resume_skills)
    IN  \/ job_skill_lower \in resume_lower
        \/ \E e \in 1..Len(synonyms) :
              /\ synonyms[e].primary_skill = job_skill_lower
              /\ \E y \in 1..Len(synonyms[e].synonyms) :
                     Lower(synonyms[e].synonyms[y]) \in resume_lower
        \/ \E e \in 1..Len(synonyms) :
              /\ Lower(synonyms[e].primary_skill) \in resume_lower
              /\ \E y \in 1..Len(synonyms[e].synonyms) :
                     Lower(synonyms[e].synonyms[y]) = job_skill_lower

_find_skill_matches_with_synonyms(resume_skills, job_skills, category) ==
    LET synonyms      == SynonymsOf(category)
        exact_matches == {job_skill \in job_skills :
                              IsExactMatch(resume_skills, job_skill, synonyms)}
    IN  [exact_matches   |-> exact_matches,
         partial_matches |-> {job_skill \in job_skills \ exact_matches :
                                \E resume_skill \in resume_skills :
                                    Similar(Lower(job_skill), Lower(resume_skill))}]

\* line 158: list(job_category_skills - matches)
MissingWithoutPartial(job_category_skills, matches, partial_matches) ==
    job_category_skills \ (matches \cup partial_matches)

Missing(job_category_skills, matches, partial_matches) ==
    job_category_skills \ matches

\* lines 138-161 for one category, the scores in tenths of a point
CategoryAnalysis(resume_category_skills, job_category_skills, category) ==
    LET found   == _find_skill_matches_with_synonyms(resume_category_skills,
                                                     job_category_skills, category)
        matches == found.exact_matches
        partial_matches == found.partial_matches
        n       == Cardinality(job_category_skills)
        exact_match_score ==
            IF n > 0 THEN Frac(Cardinality(matches) * Pts(100), n) ELSE Frac(0, 1)
        partial_match_bonus ==
            IF n > 0 THEN Frac(Cardinality(partial_matches) * Pts(30), n) ELSE Frac(0, 1)
    IN  [exact_matches       |-> matches,
         partial_matches     |-> partial_matches,
         missing             |-> Missing(job_category_skills, matches, partial_matches),
         coverage_percentage |-> exact_match_score,
         category_score      |-> FracMin(Frac(Pts(100), 1),
                                         FracAdd(exact_match_score, partial_match_bonus))]

\* lines 137-142: the categories that are analysed
ScoredCategoriesNoSkip(resume_skills_dict, job_skills_dict) ==
    {category \in SkillCategories :
        resume_skills_dict[category] # {} \/ job_skills_dict[category] # {}}

ScoredCategories(resume_skills_dict, job_skills_dict) ==
    {category \in SkillCategories : job_skills_dict[category] # {}}

RECURSIVE FracSum(_, _)
FracSum(S, f) ==
    IF S = {} THEN Frac(0, 1)
    ELSE LET c == CHOOSE x \in S : TRUE IN FracAdd(f[c], FracSum(S \ {c}, f))

\* lines 246-267: the skills of one priority list that the resume lacks
MissingSkills(skills, resume_skills_dict) ==
    LET all_resume_skills ==
            UNION {LowerAll(resume_skills_dict[c]) : c \in SkillCategories}
        Found(skill) ==
            \/ Lower(skill) \in all_resume_skills
            \/ \E c \in 1..Len(skill_taxonomy) :
                 \E e \in 1..Len(skill_taxonomy[c].synonyms) :
                    /\ skill_taxonomy[c].synonyms[e].primary_skill = Lower(skill)
                    /\ \E y \in 1..Len(skill_taxonomy[c].synonyms[e].synonyms) :
                         Lower(skill_taxonomy[c].synonyms[e].synonyms[y])
                             \in all_resume_skills
    IN  SelectSeq(skills, LAMBDA skill : ~Found(skill))

_advanced_skills_matching(resume_skills_dict, job_skills) ==
    LET job_skills_dict == job_skills.by_category
        scored   == ScoredCategories(resume_skills_dict, job_skills_dict)
        matched  == [category \in scored |->
                        CategoryAnalysis(resume_skills_dict[category],
                                         job_skills_dict[category], category)]
        total_score  == FracSum(scored,
                            [category \in scored |->
                                Frac(matched[category].category_score.num
                                         * category_weights(category),
                                     matched[category].category_score.den)])
        total_weight == SumOver(scored, [category \in scored |->
                                            category_weights(category)])
    IN  [matched_skills  |-> matched,
         missing_critical_skills     |-> MissingSkills(job_skills.prioritized.critical,
                                                       resume_skills_dict),
         missing_important_skills    |-> MissingSkills(job_skills.prioritized.important,
                                                       resume_skills_dict),
         missing_nice_to_have_skills |-> MissingSkills(job_skills.prioritized.nice_to_have,
                                                       resume_skills_dict),
         strength_areas  |-> {category \in scored :
                                 FracLeq(Frac(Pts(80), 1), matched[category].category_score)},
         weakness_areas  |-> {category \in scored :
                                 ~FracLeq(Frac(Pts(40), 1), matched[category].category_score)},
         overall_score   |-> IF total_weight > 0
                             THEN Frac(total_score.num, total_score.den * total_weight)
                             ELSE Frac(0, 1)]

----------------------------------------------------------------------------
(* EnhancedNLPService.calculate_advanced_keyword_density and               *)
(* AdvancedMatchingService._advanced_keyword_matching.  The resume text is *)
(* represented by total_words, the number of \b\w+\b matches, and by the   *)
(* number of exact matches of each job keyword, in the order of the list.  *)

\* round(n / d) for n >= 0, d > 0: to the nearest integer, a tie to the even
\* one.  (The code rounds a binary floating-point quotient, which may lie on
\* either side of an exact tie such as 23 / 160; none of the inputs drawn
\* below is a tie.)
RoundHalfEven(n, d) ==
    LET q == n \div d
        r == n % d
    IN  IF 2 * r < d THEN q
        ELSE IF 2 * r > d THEN q + 1
        ELSE IF q % 2 = 0 THEN q ELSE q + 1

\* line 500-502: round((exact_matches / total_words) * 100, 2), in
\* hundredths of a percent
density_percentage(exact_matches, total_words) ==
    RoundHalfEven(exact_matches * 100 * 100, total_words)

\* the densities dict: empty when the text has no words (line 478-479),
\* which _advanced_keyword_matching reads as count 0 and density 0
calculate_advanced_keyword_density(total_words, exact_matches) ==
    [k \in 1..Len(exact_matches) |->
        IF total_words = 0
        THEN [count |-> 0, density_percentage |-> 0]
        ELSE [count |-> exact_matches[k],
              density_percentage |-> density_percentage(exact_matches[k], total_words)]]

\* lines 465-470, density in hundredths of a percent, the score in tenths of
\* a point
DensityScoreNoFloor(density) ==
    IF 50 <= density /\ density <= 300 THEN Pts(100)
    ELSE IF density < 50 THEN density * 20
    ELSE Pts(100) - (density - 300)

DensityScore(density) ==
    IF 50 <= density /\ density <= 300 THEN Pts(100)
    ELSE IF density < 50 THEN density * 20
    ELSE Max2(Pts(50), Pts(100) - (density - 300))

CoverageWeight == 7  \* coverage_weight = 0.7, in tenths

DensityWeight == 3   \* density_weight = 0.3, in tenths

\* lines 486-489: the weighted average of coverage and density quality
KeywordOverallEqualWeights(keyword_coverage, avg_density_score) ==
    FracAdd(Frac(5 * keyword_coverage.num, 10 * keyword_coverage.den),
            Frac(5 * avg_density_score.num, 10 * avg_density_score.den))

KeywordOverall(keyword_coverage, avg_density_score) ==
    FracAdd(Frac(CoverageWeight * keyword_coverage.num, 10 * keyword_coverage.den),
            Frac(DensityWeight * avg_density_score.num, 10 * avg_density_score.den))

_advanced_keyword_matching(total_words, exact_matches) ==
    LET densities == calculate_advanced_keyword_density(total_words, exact_matches)
        keywords  == 1..Len(exact_matches)
        covered   == {k \in keywords : densities[k].count > 0}
        total_density_score ==
            SumOver(covered, [k \in covered |->
                                 DensityScore(densities[k].density_percentage)])
        keyword_coverage ==
            IF keywords = {} THEN Frac(0, 1)
            ELSE Frac(Cardinality(covered) * Pts(100), Len(exact_matches))
        avg_density_score ==
            IF covered # {} THEN Frac(total_density_score, Cardinality(covered))
            ELSE Frac(0, 1)
    IN  [overall_score    |->
             IF keywords = {} THEN Frac(Pts(50), 1)
             ELSE KeywordOverall(keyword_coverage, avg_density_score),
         keyword_coverage |-> keyword_coverage,
         high_density_keywords |->
             SelectSeq([k \in keywords |-> k],
                       LAMBDA k : k \in covered /\ densities[k].density_percentage >= 100),
         missing_keywords |->
             SelectSeq([k \in keywords |-> k], LAMBDA k : k \notin covered)]

----------------------------------------------------------------------------
(* EnhancedNLPService.assess_ats_compatibility.  The resume text is        *)
(* represented by what the function reads from it: len(text.split()),      *)
(* whether the e-mail and the phone pattern are found, and the sections    *)
(* that _detect_resume_sections returns.                                   *)

required_sections == <<"experience", "education", "skills">>

\* score_factors["length"], in tenths
LengthFactor(word_count) ==
    IF word_count < 200 THEN 3 ELSE IF word_count > 1000 THEN 7 ELSE 10

FormattingFactor == 8  \* score_factors["formatting"] = 0.8, in tenths

\* sum(score_factors[factor] * weights[factor]) * 100, rounded to one place:
\* every term is a whole number of hundredths, the structure term
\* 0.3 * found / 3 being found tenths.  In tenths of a point.
assess_ats_compatibility(word_count, email, phone, detected_sections) ==
    LET found == Cardinality({i \in 1..Len(required_sections) :
                                 required_sections[i] \in detected_sections})
        contact_score == (IF email THEN 5 ELSE 0) + (IF phone THEN 5 ELSE 0)
        hundredths == 2 * LengthFactor(word_count) + 3 * contact_score
                      + 10 * found + 2 * FormattingFactor
    IN  [ats_score   |-> Pts(hundredths),
         issues      |-> (IF word_count < 200 \/ word_count > 1000
                          THEN <<"content_length">> ELSE <<>>)
                         \o (IF email THEN <<>> ELSE <<"missing_contact">>)
                         \o (IF phone THEN <<>> ELSE <<"missing_contact">>)
                         \o (IF found < Len(required_sections)
                             THEN <<"missing_sections">> ELSE <<>>),
         suggestions |-> <<>>]

----------------------------------------------------------------------------
(* The skills, keyword and ATS analyses as functions of their inputs *)

\* the skill names drawn for each category: names of the taxonomy and the
\* synonym js
SkillsDrawn(category) ==
    CASE category = "programming_languages" -> {w_python, w_javascript, w_js}
      [] category = "web_frameworks"        -> {w_nextjs, w_nuxtjs}
      [] category = "tools_and_software"    -> {w_docker}

SkillDicts ==
    [programming_languages : SUBSET SkillsDrawn("programming_languages"),
     web_frameworks        : SUBSET SkillsDrawn("web_frameworks"),
     tools_and_software    : SUBSET SkillsDrawn("tools_and_software")]

SkillOrder == <<w_python, w_javascript, w_js, w_nextjs, w_nuxtjs, w_docker>>

\* the job's skills split into critical ones and nice-to-have ones
Prioritized(job_skills_dict, critical) ==
    LET job_skills == UNION {job_skills_dict[c] : c \in SkillCategories}
    IN  [critical     |-> SelectSeq(SkillOrder, LAMBDA skill :
                              skill \in job_skills /\ skill \in critical),
         important    |-> <<>>,
         nice_to_have |-> SelectSeq(SkillOrder, LAMBDA skill :
                              skill \in job_skills /\ skill \notin critical)]

SkillsMatchingArgs ==
    {[fn            |-> "_advanced_skills_matching",
      resume_skills |-> resume_skills_dict,
      job_skills    |-> [by_category |-> job_skills_dict,
                         prioritized |-> Prioritized(job_skills_dict, critical)]] :
        resume_skills_dict \in SkillDicts, job_skills_dict \in SkillDicts,
        critical \in {{}, {w_javascript, w_nuxtjs}}}

WordCountsDrawn == {0, 1, 25, 99, 100, 200, 201, 250, 1032}

MatchCountsDrawn == {0, 1, 3, 31}

\* the keywords are different words, so their matches are different words
\* of the text
KeywordArgs ==
    {a \in [fn            : {"_advanced_keyword_matching"},
            total_words   : WordCountsDrawn,
            exact_matches : SeqsUpTo(MatchCountsDrawn, MaxKeywords)] :
        SumOver(DOMAIN a.exact_matches, a.exact_matches) <= a.total_words}

\* a text without words has no e-mail address, phone number or section
AtsArgs ==
    {a \in [fn                : {"assess_ats_compatibility"},
            word_count        : {0, 10, 199, 200, 1000, 1001},
            email             : BOOLEAN,
            phone             : BOOLEAN,
            detected_sections : SUBSET {"summary", "experience", "education", "skills"}] :
        a.word_count = 0 => ~a.email /\ ~a.phone /\ a.detected_sections = {}}

InitSubScores ==
    /\ LifecycleInit
    /\ args \in SkillsMatchingArgs \cup KeywordArgs \cup AtsArgs
    /\ result = None

call_advanced_skills_matching ==
    /\ result = None
    /\ args.fn = "_advanced_skills_matching"
    /\ result' = Some(_advanced_skills_matching(args.resume_skills, args.job_skills))
    /\ UNCHANGED <<analyses, background_tasks, in_request, task, response,
                   executions, finished, args, nlp_service, runs, pdf_cache>>

call_advanced_keyword_matching ==
    /\ result = None
    /\ args.fn = "_advanced_keyword_matching"
    /\ result' = Some(_advanced_keyword_matching(args.total_words, args.exact_matches))
    /\ UNCHANGED <<analyses, background_tasks, in_request, task, response,
                   executions, finished, args, nlp_service, runs, pdf_cache>>

call_assess_ats_compatibility ==
    /\ result = None
    /\ args.fn = "assess_ats_compatibility"
    /\ result' = Some(assess_ats_compatibility(args.word_count, args.email, args.phone,
                                               args.detected_sections))
    /\ UNCHANGED <<analyses, background_tasks, in_request, task, response,
                   executions, finished, args, nlp_service, runs, pdf_cache>>

NextSubScores ==
    \/ call_advanced_skills_matching
    \/ call_advanced_keyword_matching
    \/ call_assess_ats_compatibility

SpecSubScores == InitSubScores /\ [][NextSubScores]_vars

----------------------------------------------------------------------------
(* comprehensive_match_analysis as a function of its inputs: the parts of  *)
(* the resumes and job postings above, in every combination, and a resume  *)
(* without education entries                                               *)

FieldValues(records, field) == {records[i][field] : i \in DOMAIN records}

MatchResumes ==
    [years        : FieldValues(Resumes, "years"),
     level_counts : FieldValues(Resumes, "level_counts"),
     education    : FieldValues(Resumes, "education") \cup {<<>>},
     ats_analysis : FieldValues(Resumes, "ats_analysis")]

MatchJobs ==
    [year_matches     : FieldValues(JobPostings, "year_matches"),
     level_counts     : FieldValues(JobPostings, "level_counts"),
     education        : FieldValues(JobPostings, "education"),
     skills_analysis  : FieldValues(JobPostings, "skills_analysis"),
     keyword_analysis : FieldValues(JobPostings, "keyword_analysis")]

MatchArgs ==
    [fn : {"comprehensive_match_analysis"}, resume : MatchResumes, job : MatchJobs]

InitMatch == LifecycleInit /\ args \in MatchArgs /\ result = None

call_comprehensive_match_analysis ==
    /\ result = None
    /\ args.fn = "comprehensive_match_analysis"
    /\ result' = Some(comprehensive_match_analysis(args.resume, args.job))
    /\ UNCHANGED <<analyses, background_tasks, in_request, task, response,
                   executions, finished, args, nlp_service, runs, pdf_cache>>

NextMatch == call_comprehensive_match_analysis

SpecMatch == InitMatch /\ [][NextMatch]_vars

----------------------------------------------------------------------------
(* JobAnalysisService._extract_experience_requirements as a function of    *)
(* what the four years_patterns find in the job text.  Every combination   *)
(* is the findall result of some text: "minimum 6 years; 3 years of        *)
(* experience; 2 to 4 years" gives << <<3>>, <<6>>, <<>>, << <<2, 4>> >> >>*)

YearsDrawn == {3, 6}

RangesDrawn == {<<2, 4>>, <<4, 8>>}

YearMatches ==
    {<<p1, p2, p3, p4>> : p1 \in SeqsUpTo(YearsDrawn, MaxMatches),
                          p2 \in SeqsUpTo(YearsDrawn, MaxMatches),
                          p3 \in SeqsUpTo(YearsDrawn, MaxMatches),
                          p4 \in SeqsUpTo(RangesDrawn, MaxMatches)}

JobExperienceArgs ==
    [fn : {"_extract_experience_requirements"},
     year_matches : YearMatches,
     level_counts : FieldValues(JobPostings, "level_counts")]

InitJobExperience == LifecycleInit /\ args \in JobExperienceArgs /\ result = None

call_extract_experience_requirements ==
    /\ result = None
    /\ args.fn = "_extract_experience_requirements"
    /\ result' = Some(_extract_experience_requirements(args.year_matches,
                                                       args.level_counts))
    /\ UNCHANGED <<analyses, background_tasks, in_request, task, response,
                   executions, finished, args, nlp_service, runs, pdf_cache>>

NextJobExperience == call_extract_experience_requirements

SpecJobExperience == InitJobExperience /\ [][NextJobExperience]_vars

----------------------------------------------------------------------------
(* Properties of the scoring, extraction and skill functions *)

MatchReturned ==
    /\ result # None
    /\ args.fn = "comprehensive_match_analysis"
    /\ ~result[1].raised

\* a score in thousandths of a point lies in [0, 100]
InPercentRange(thousandths) == thousandths >= 0 /\ thousandths <= 100 * 1000

\* C11: the overall_score and the match_percentage that
\* comprehensive_match_analysis returns lie in [0, 100] for every input.
C11_OverallScoreInRange ==
    MatchReturned => /\ InPercentRange(result[1].value.overall_score)
                     /\ InPercentRange(result[1].value.match_percentage)

\* C12: when the job requires N > 0 years and the resume shows more than
\* N + 2 years, the base experience score (the score before the seniority
\* adjustment) is 90 - min(10 * excess, 20), excess = resume years - N.
C12_OverQualifiedBase ==
    /\ result # None
    /\ args.fn = "_experience_matching_analysis"
    /\ args.job_experience.years_required > 0
    /\ args.resume_experience.total_years > args.job_experience.years_required + 2
    => /\ ~result[1].raised
       /\ result[1].value.score
            - LevelAdjustment(args.resume_experience.seniority_level,
                              args.job_experience.level)
          = Pts(90) - Min2(Pts(10) * (args.resume_experience.total_years
                                      - args.job_experience.years_required),
                           Pts(20))

EducationReturned ==
    /\ result # None
    /\ args.fn = "_education_matching_analysis"
    /\ ~result[1].raised

\* the education score before the field-of-study check, for the inputs in args
ScoreBeforeFieldBonus ==
    EducationLevelScore(ResumeHighest(args.resume_education, "unknown"),
                        args.job_education.level,
                        args.job_education.degree_required).score

\* C13: whenever the job posting does not require a degree, the education
\* score is 80 before any field-of-study bonus and the degree requirement is
\* reported as met, whatever education the resume lists, the empty list
\* included.
C13_NoDegreeRequiredScores80 ==
    EducationReturned /\ ~args.job_education.degree_required
    => /\ result[1].value.degree_requirement_met
       /\ result[1].value.score
            - FieldBonus(args.resume_education, args.job_education.fields)
          = Pts(80)

\* C14: the field-of-study bonus raises the education score by exactly 10 at
\* most once, however many education entries match a job field.
C14_FieldBonusIsFlat ==
    EducationReturned /\ args.resume_education # <<>>
    => result[1].value.score - ScoreBeforeFieldBonus \in {0, Pts(10)}

\* a resume education entry with a non-empty field of study that contains, or
\* is contained in, one of the job's fields of study
NonEmptyFieldMatch ==
    \E i \in 1..Len(args.resume_education) :
        \E j \in 1..Len(args.job_education.fields) :
            LET resume_field == Lower(args.resume_education[i].field)
                job_field    == Lower(args.job_education.fields[j])
            IN  /\ resume_field # <<>>
                /\ \/ IsSubstring(job_field, resume_field)
                   \/ IsSubstring(resume_field, job_field)

\* C15: the field-of-study bonus and field_match = true are granted only when
\* some education entry has a non-empty field that contains, or is contained
\* in, a job field; an entry without a field never counts.
C15_FieldMatchNeedsField ==
    EducationReturned /\ args.resume_education # <<>>
    => /\ result[1].value.field_match => NonEmptyFieldMatch
       /\ result[1].value.score > ScoreBeforeFieldBonus => NonEmptyFieldMatch

\* every number the year patterns find in the job text, a range "N to M
\* years" contributing M
YearsFound(year_matches) ==
    UNION {{year_matches[i][k] : k \in 1..Len(year_matches[i])} :
             i \in DOMAIN year_matches \ {RangePattern}}
    \cup {year_matches[RangePattern][k][2] : k \in 1..Len(year_matches[RangePattern])}

\* C16: the job-side years_required is the maximum number found over all
\* matches of all year patterns (a range contributing its upper bound),
\* whatever the order of the patterns; it is unset when nothing is found.
C16_YearsRequiredIsMaximum ==
    result # None /\ args.fn = "_extract_experience_requirements"
    => LET found == YearsFound(args.year_matches)
           years == result[1].years_required
       IN  IF found = {} THEN years = NoYears
           ELSE years \in found /\ \A y \in found : y <= years

IndexIn(seq, x) == CHOOSE i \in 1..Len(seq) : seq[i] = x

CategoryData(category) ==
    skill_taxonomy[CHOOSE c \in 1..Len(skill_taxonomy) :
                       skill_taxonomy[c].category = category]

\* C17: within each category, enhanced_extract_skills lists the retained
\* skills in the order the taxonomy declares them, whether a skill was found
\* by its name or through a synonym.
C17_SkillsInTaxonomyOrder ==
    result # None /\ args.fn = "enhanced_extract_skills"
    => \A c \in 1..Len(result[1].skills) :
         LET listed   == result[1].skills[c].skills
             declared == CategoryData(result[1].skills[c].category).primary_skills
         IN  \A i, j \in 1..Len(listed) :
               i < j => IndexIn(declared, listed[i]) < IndexIn(declared, listed[j])

\* C18: the confidence of a skill found by exact word-boundary match is 0.5
\* for one mention plus 0.2 for each further mention, capped at 1.0.
C18_ExactMatchConfidence ==
    /\ result # None
    /\ args.fn = "_calculate_skill_confidence"
    /\ FindAllCount(args.text, args.skill, 0) > 0
    => result[1] = Min2(50 + (FindAllCount(args.text, args.skill, 0) - 1) * 20, 100)

\* the skills the tagger discovers in the job text
Discovered ==
    UNION {{result[1].by_category[c].skills[i] :
                i \in 1..Len(result[1].by_category[c].skills)} :
           c \in 1..Len(result[1].by_category)}

\* C19: every skill discovered in the job text is placed in exactly one of
\* the lists critical, important and nice_to_have, and appears there exactly
\* once: critical if mentions >= 3 or context score >= 2, else important if
\* mentions >= 2 or context score >= 1, else nice_to_have.
C19_EachSkillPlacedOnce ==
    result # None /\ args.fn = "_extract_job_skills"
    => \A skill \in Discovered :
         LET prioritized == result[1].prioritized
             mentions    == FindAllCount(args.text, skill, 0)
             context     == ContextScore(args.text, skill)
             expected    == IF mentions >= 3 \/ context >= 2 THEN "critical"
                            ELSE IF mentions >= 2 \/ context >= 1 THEN "important"
                            ELSE "nice_to_have"
         IN  \A priority \in {"critical", "important", "nice_to_have"} :
               Count(prioritized[priority], skill)
                 = IF priority = expected THEN 1 ELSE 0

\* C20: the overall_score that comprehensive_match_analysis returns equals
\* 0.35 skills + 0.25 experience + 0.20 keywords + 0.15 education + 0.05 ats
\* of the five component scores of the same result, and the five weights sum
\* to 1.0.  (Component scores are in tenths, the weights in hundredths and
\* the overall score in thousandths of a point.)
C20_OverallIsWeightedSum ==
    MatchReturned
    => LET scores == result[1].value.component_scores
       IN  /\ result[1].value.overall_score
                = 35 * scores.skills_score + 25 * scores.experience_score
                  + 20 * scores.keywords_score + 15 * scores.education_score
                  + 5 * scores.ats_score
           /\ SumOver(Components, Weights) = 100

\* a result whose component scores differ from one another
C20_Witness ==
    /\ MatchReturned
    /\ result[1].value.overall_score > 0
    /\ LET scores == result[1].value.component_scores
       IN  Cardinality({scores.skills_score, scores.experience_score,
                        scores.keywords_score, scores.education_score,
                        scores.ats_score}) = 5

SkillsMatched == result # None /\ args.fn = "_advanced_skills_matching"

\* C21: for every category in which the job has skills, the exact_matches
\* and the missing list reported by _advanced_skills_matching are disjoint
\* and their union is the job's skill set of that category.
C21_MatchedAndMissingPartition ==
    SkillsMatched
    => \A category \in SkillCategories :
         args.job_skills.by_category[category] # {}
         => /\ category \in DOMAIN result[1].matched_skills
            /\ LET entry == result[1].matched_skills[category]
               IN  /\ entry.exact_matches \cap entry.missing = {}
                   /\ entry.exact_matches \cup entry.missing
                        = args.job_skills.by_category[category]

\* a category with a skill matched through a synonym, a partial match that
\* stays among the missing skills, and a skill that is missing outright
C21_Witness ==
    /\ SkillsMatched
    /\ args.job_skills.by_category["programming_languages"] = {w_python, w_javascript}
    /\ args.resume_skills["programming_languages"] = {w_js}
    /\ args.job_skills.by_category["web_frameworks"] = {w_nuxtjs}
    /\ args.resume_skills["web_frameworks"] = {w_nextjs}
    /\ result[1].matched_skills["programming_languages"].exact_matches = {w_javascript}
    /\ result[1].matched_skills["programming_languages"].missing = {w_python}
    /\ result[1].matched_skills["web_frameworks"].partial_matches = {w_nuxtjs}
    /\ result[1].matched_skills["web_frameworks"].missing = {w_nuxtjs}

\* the categories in which the job has skills
JobCategories == {category \in SkillCategories :
                     args.job_skills.by_category[category] # {}}

\* the resume's skills without those of the categories the job has none in
ResumeInJobCategories ==
    [category \in SkillCategories |->
        IF category \in JobCategories THEN args.resume_skills[category] ELSE {}]

\* C22: a category in which the job has no skills is skipped: it has no
\* entry, the skills score does not depend on the resume's skills in it, and
\* the skills score is the average of the scores of the other categories
\* weighted by their category weights (0 when there is none).
C22_EmptyJobCategorySkipped ==
    SkillsMatched
    => LET matched == result[1].matched_skills
           Weighted(category) ==
               Frac(matched[category].category_score.num * category_weights(category),
                    matched[category].category_score.den)
           total   == FracSum(JobCategories,
                              [category \in JobCategories |-> Weighted(category)])
           weight  == SumOver(JobCategories,
                              [category \in JobCategories |-> category_weights(category)])
       IN  /\ DOMAIN matched = JobCategories
           /\ result[1].overall_score
                = _advanced_skills_matching(ResumeInJobCategories,
                                            args.job_skills).overall_score
           /\ result[1].overall_score
                = IF JobCategories = {} THEN Frac(0, 1)
                  ELSE Frac(total.num, total.den * weight)

\* the resume has skills in a category the job has none in, and the job's
\* two categories score differently
C22_Witness ==
    /\ SkillsMatched
    /\ JobCategories = {"programming_languages", "web_frameworks"}
    /\ args.resume_skills["tools_and_software"] # {}
    /\ result[1].matched_skills["programming_languages"].category_score = Frac(Pts(50), 1)
    /\ result[1].matched_skills["web_frameworks"].category_score = Frac(Pts(100), 1)
    /\ result[1].overall_score = Frac(Pts(50) * 10 + Pts(100) * 9, 19)

KeywordsMatched ==
    /\ result # None
    /\ args.fn = "_advanced_keyword_matching"
    /\ args.exact_matches # <<>>

\* the keywords that occur in the resume
CoveredKeywords == {k \in DOMAIN args.exact_matches : args.exact_matches[k] > 0}

\* 0.7 * coverage percentage + 0.3 * average of the density scores of the
\* covered keywords, for density scores given as fractions in tenths of a point
ClaimedKeywordScore(density_score) ==
    LET coverage == Frac(Cardinality(CoveredKeywords) * Pts(100), Len(args.exact_matches))
        average  == IF CoveredKeywords = {} THEN Frac(0, 1)
                    ELSE LET total == FracSum(CoveredKeywords, density_score)
                         IN  Frac(total.num, total.den * Cardinality(CoveredKeywords))
    IN  FracAdd(Frac(7 * coverage.num, 10 * coverage.den),
                Frac(3 * average.num, 10 * average.den))

\* the density score of the claim for the density occurrences / total words
\* * 100: 100 within [0.5, 3], density * 200 below, and
\* max(50, 100 - 10 * (density - 3)) above
ScoreOfExactDensity(exact_matches, total_words) ==
    IF 1000 * exact_matches >= 5 * total_words /\ 100 * exact_matches <= 3 * total_words
    THEN Frac(Pts(100), 1)
    ELSE IF 1000 * exact_matches < 5 * total_words
    THEN Frac(exact_matches * 100 * 200 * 10, total_words)
    ELSE LET linear == Frac(Pts(130) * total_words - exact_matches * 100 * 10 * 10,
                            total_words)
         IN  IF FracLeq(linear, Frac(Pts(50), 1)) THEN Frac(Pts(50), 1) ELSE linear

ScoreOfRoundedDensity(density) ==
    IF 50 <= density /\ density <= 300 THEN Frac(Pts(100), 1)
    ELSE IF density < 50 THEN Frac(density * 2 * 10, 1)
    ELSE IF Pts(100) - (density - 300) >= Pts(50)
    THEN Frac(Pts(100) - (density - 300), 1)
    ELSE Frac(Pts(50), 1)

BaseScore ==
    result[1].value.score
      - LevelAdjustment(args.resume_experience.seniority_level,
                        args.job_experience.level)

\* C24: when the job requires N > 0 years, the base experience score is
\* 90 + min(5 * excess, 10) when the resume meets N with an excess of at most
\* 2 years (exactly N gives 90), 70 when the gap is at most 1 year, 50 when
\* it is at most 2 years, and max(20, 50 - 10 * gap) when it is larger.
C24_BaseScoreByGap ==
    /\ result # None
    /\ args.fn = "_experience_matching_analysis"
    /\ args.job_experience.years_required > 0
    /\ args.resume_experience.total_years
         <= args.job_experience.years_required + 2
    => /\ ~result[1].raised
       /\ LET N      == args.job_experience.years_required
              years  == args.resume_experience.total_years
              excess == years - N
              gap    == N - years
          IN  /\ years >= N => BaseScore = Pts(90) + Min2(Pts(5) * excess, Pts(10))
              /\ years = N => BaseScore = Pts(90)
              /\ gap > 0 /\ gap <= 1 => BaseScore = Pts(70)
              /\ gap > 1 /\ gap <= 2 => BaseScore = Pts(50)
              /\ gap > 2 => BaseScore = Max2(Pts(20), Pts(50) - Pts(10) * gap)

\* five years required, one shown: the gap of 4 gives the floor of 20
C24_Witness ==
    /\ result # None
    /\ args.fn = "_experience_matching_analysis"
    /\ args.job_experience.years_required = 5
    /\ args.resume_experience.total_years = 1
    /\ ~result[1].raised
    /\ BaseScore = Pts(20)

\* the rule types in the order of the claim, and the rank of a priority
RuleOrder == <<"critical_skills", "experience", "keywords", "ats_formatting",
               "education">>

PriorityRank(priority) ==
    CASE priority = "high" -> 1 [] priority = "medium" -> 2 [] priority = "low" -> 3

\* the condition of each rule on the analyses that the result carries
RuleCondition(type) ==
    LET analysis == result[1].value.detailed_analysis
    IN  CASE type = "critical_skills" -> analysis.skills.missing_critical_skills # <<>>
          [] type = "experience"      -> analysis.experience.experience_gap > 0
          [] type = "keywords"        -> analysis.keywords.keyword_coverage < Pts(60)
          [] type = "ats_formatting"  -> analysis.ats.ats_score < Pts(70)
          [] type = "education"       -> ~analysis.education.degree_requirement_met

\* C25: each of the five rules contributes its recommendation exactly when
\* its condition holds (missing critical skills, experience gap > 0, keyword
\* coverage < 60, ATS score < 70, degree requirement unmet), once, the list
\* keeps the order of the rules, and so no recommendation is preceded by one
\* of lower priority.
C25_RecommendationRules ==
    MatchReturned
    => LET recommendations == result[1].value.recommendations
       IN  /\ \A k \in DOMAIN RuleOrder :
                 RuleCondition(RuleOrder[k]) <=> InSeq(RuleOrder[k], recommendations)
           /\ \A i, j \in DOMAIN recommendations :
                 i < j => /\ IndexIn(RuleOrder, recommendations[i])
                               < IndexIn(RuleOrder, recommendations[j])
                          /\ PriorityRank(recommendation_priority(recommendations[i]))
                               <= PriorityRank(recommendation_priority(recommendations[j]))

\* all five rules fire
C25_Witness ==
    /\ MatchReturned
    /\ result[1].value.recommendations = RuleOrder
    /\ \A k \in DOMAIN RuleOrder : RuleCondition(RuleOrder[k])

----------------------------------------------------------------------------
(* Calls on the shared service objects.  advanced_matching_service and the *)
(* EnhancedNLPService instances it holds are created once, when the        *)
(* modules are imported, and serve every call; runs follows MaxRuns calls, *)
(* which may overlap.                                                      *)

\* texts of the calls of enhanced_extract_skills
RunTexts ==
    {Join(ws) : ws \in {<<>>, <<w_python>>, <<w_py>>, <<w_js>>, <<w_docker>>,
                        <<w_ruby>>, <<w_js, w_python>>, <<w_python, w_js>>,
                        <<w_python, w_python>>, <<w_javascript, w_js, w_git>>}}

extract_skills_call_forgetting(r, text) ==
    /\ runs[r] = Idle
    /\ runs' = [runs EXCEPT ![r] = [pc    |-> "returned",
                                    fn    |-> "enhanced_extract_skills",
                                    text  |-> text,
                                    value |-> enhanced_extract_skills(text)]]
    /\ nlp_service' = [skill_taxonomy |->
                          SelectSeq(skill_taxonomy,
                                    LAMBDA c : c.category # "programming_languages")]
    /\ UNCHANGED <<analyses, background_tasks, in_request, task, response,
                   executions, finished, args, result, pdf_cache>>

\* enhanced_nlp.py, lines 309-346: one call of enhanced_extract_skills on the
\* service; it assigns to local variables only
extract_skills_call(r, text) ==
    /\ runs[r] = Idle
    /\ runs' = [runs EXCEPT ![r] = [pc    |-> "returned",
                                    fn    |-> "enhanced_extract_skills",
                                    text  |-> text,
                                    value |-> enhanced_extract_skills(text)]]
    /\ UNCHANGED <<analyses, background_tasks, in_request, task, response,
                   executions, finished, args, result, nlp_service, pdf_cache>>

NextExtraction == \E r \in RunIds, text \in RunTexts : extract_skills_call(r, text)

SpecExtraction == Init /\ [][NextExtraction]_vars

\* resume and job texts of the runs of comprehensive_match_analysis; their
\* skills belong to programming_languages and web_frameworks
RunResumeTexts == {Join(<<>>), Join(<<w_python>>), Join(<<w_js, w_nuxtjs_syn>>)}

RunJobTexts == {Join(<<w_javascript, w_nextjs>>)}

\* advanced_matching.py, lines 138-139: set(skills_dict.get(category, []))
SkillSets(extracted) ==
    [category \in SkillCategories |->
        IF \E i \in 1..Len(extracted) : extracted[i].category = category
        THEN LET skills == extracted[CHOOSE i \in 1..Len(extracted) :
                                         extracted[i].category = category].skills
             IN  {skills[k] : k \in 1..Len(skills)}
        ELSE {}]

\* the call enters comprehensive_match_analysis
enter_comprehensive_match_analysis(r, resume_text, job_text) ==
    /\ runs[r] = Idle
    /\ runs' = [runs EXCEPT ![r] = [pc          |-> "line_50",
                                    resume_text |-> resume_text,
                                    job_text    |-> job_text]]
    /\ UNCHANGED <<analyses, background_tasks, in_request, task, response,
                   executions, finished, args, result, nlp_service, pdf_cache>>

extract_resume_skills_forgetting(r) ==
    /\ runs[r].pc = "line_50"
    /\ runs' = [runs EXCEPT ![r] =
                   [pc            |-> "line_51",
                    resume_text   |-> runs[r].resume_text,
                    job_text      |-> runs[r].job_text,
                    resume_skills |-> enhanced_extract_skills(runs[r].resume_text)]]
    /\ nlp_service' = [skill_taxonomy |->
                          SelectSeq(skill_taxonomy,
                                    LAMBDA c : c.category # "programming_languages")]
    /\ UNCHANGED <<analyses, background_tasks, in_request, task, response,
                   executions, finished, args, result, pdf_cache>>

\* line 50: resume_skills = self.nlp_service.enhanced_extract_skills(resume_text)
extract_resume_skills(r) ==
    /\ runs[r].pc = "line_50"
    /\ runs' = [runs EXCEPT ![r] =
                   [pc            |-> "line_51",
                    resume_text   |-> runs[r].resume_text,
                    job_text      |-> runs[r].job_text,
                    resume_skills |-> enhanced_extract_skills(runs[r].resume_text)]]
    /\ UNCHANGED <<analyses, background_tasks, in_request, task, response,
                   executions, finished, args, result, nlp_service, pdf_cache>>

\* lines 51-109: the job's skills, the skills analysis and the return.  value
\* is the part of the returned dict that is computed with the taxonomy.
analyze_and_return(r) ==
    /\ runs[r].pc = "line_51"
    /\ LET job_skills      == _extract_job_skills(runs[r].job_text)
           skills_analysis ==
               _advanced_skills_matching(
                   SkillSets(runs[r].resume_skills.skills),
                   [by_category |-> SkillSets(job_skills.by_category),
                    prioritized |-> job_skills.prioritized])
       IN  runs' = [runs EXCEPT ![r] =
                       [pc          |-> "returned",
                        fn          |-> "comprehensive_match_analysis",
                        resume_text |-> runs[r].resume_text,
                        job_text    |-> runs[r].job_text,
                        value       |->
                            [component_scores  |->
                                 [skills_score |-> skills_analysis.overall_score],
                             detailed_analysis |-> [skills |-> skills_analysis]]]]
    /\ UNCHANGED <<analyses, background_tasks, in_request, task, response,
                   executions, finished, args, result, nlp_service, pdf_cache>>

NextRuns ==
    \/ \E r \in RunIds, resume_text \in RunResumeTexts, job_text \in RunJobTexts :
          enter_comprehensive_match_analysis(r, resume_text, job_text)
    \/ \E r \in RunIds : extract_resume_skills(r)
    \/ \E r \in RunIds : analyze_and_return(r)

SpecRuns == Init /\ [][NextRuns]_vars

----------------------------------------------------------------------------
(* Properties of the calls on the shared services *)

Extracted(r) == runs[r].pc = "returned" /\ runs[r].fn = "enhanced_extract_skills"

Matched(r) == runs[r].pc = "returned" /\ runs[r].fn = "comprehensive_match_analysis"

\* what a run on these texts returns when it is the only one
RunAlone(resume_text, job_text) ==
    LET job_skills      == _extract_job_skills(job_text)
        skills_analysis ==
            _advanced_skills_matching(
                SkillSets(enhanced_extract_skills(resume_text).skills),
                [by_category |-> SkillSets(job_skills.by_category),
                 prioritized |-> job_skills.prioritized])
    IN  [component_scores  |-> [skills_score |-> skills_analysis.overall_score],
         detailed_analysis |-> [skills |-> skills_analysis]]

----------------------------------------------------------------------------
(* The job-side seniority level *)

\* the adjustment of lines 328-339 for two known levels
KnownLevelsAdjustment(resume_level, job_level) ==
    LET r == LevelHierarchy(resume_level)
        j == LevelHierarchy(job_level)
    IN  IF r = j THEN Pts(5)
        ELSE IF r - j = 1 \/ j - r = 1 THEN Pts(2)
        ELSE IF r < j - 1 THEN 0 - Pts(10)
        ELSE 0

\* C29: the level that _extract_experience_requirements gives the job is
\* never "unknown" and is "entry" when no seniority pattern matches, so for
\* a resume whose seniority level is known the experience analysis returns
\* a score that carries the seniority adjustment.
C29_SeniorityAdjustmentApplied ==
    result # None /\ args.fn = "comprehensive_match_analysis"
    => LET job_experience    == _extract_experience_requirements(args.job.year_matches,
                                                                 args.job.level_counts)
           resume_experience == enhanced_extract_experience(args.resume.years,
                                                            args.resume.level_counts)
       IN  /\ job_experience.level # "unknown"
           /\ (\A i \in DOMAIN args.job.level_counts : args.job.level_counts[i] = 0)
                 => job_experience.level = "entry"
           /\ resume_experience.seniority_level # "unknown"
                 => /\ ~(result[1].raised /\ result[1].message = TypeErrorMsg)
                    /\ ~result[1].raised
                          => result[1].value.detailed_analysis.experience.score
                               = ExperienceBase(resume_experience.total_years,
                                                job_experience.years_required).value.score
                                 + KnownLevelsAdjustment(
                                       resume_experience.seniority_level,
                                       job_experience.level)

----------------------------------------------------------------------------
(* services/pdf_cache.py: PDFCache.  pdf_cache.cache_metadata lists the    *)
(* entries of the dict in insertion order, each with its key;              *)
(* pdf_cache.files holds the keys whose file exists in cache_dir, and      *)
(* pdf_cache.time is time.time(), in hours.  A cache key stands for one    *)
(* (resume_data, template_id) pair, so the data_hash of an entry always    *)
(* equals the hash that get_cached_pdf computes (lines 113-117).  File     *)
(* sizes are in megabytes.                                                 *)

CacheKeys == 1..MaxCacheKeys

\* __init__, line 24
max_cache_size_mb == 100

max_age_hours == 24

\* sizes of the PDF files given to cache_pdf
PdfSizes == {40, 70, 101}

\* hours by which the clock advances between two calls
TickHours == 12

Keys(cache_metadata) == {cache_metadata[i].cache_key : i \in DOMAIN cache_metadata}

\* lines 174-191
_remove_cache_entry(cache, cache_key) ==
    IF cache_key \notin Keys(cache.cache_metadata) THEN cache
    ELSE [cache EXCEPT !.files = @ \ {cache_key},
                       !.cache_metadata = SelectSeq(@, LAMBDA e : e.cache_key # cache_key)]

\* lines 201-212: the file of the entry is missing or the entry has expired
Stale(cache, entry) ==
    \/ entry.cache_key \notin cache.files
    \/ cache.time - entry.created_at > max_age_hours

\* lines 217-225: entries_by_age sorted by created_at (the sort is stable),
\* and the loop that removes the oldest entries
Oldest(entries) ==
    CHOOSE i \in DOMAIN entries :
        /\ \A j \in DOMAIN entries : entries[i].created_at <= entries[j].created_at
        /\ \A j \in 1..(i - 1) : entries[j].created_at > entries[i].created_at

RECURSIVE RemoveOldest(_, _, _)
RemoveOldest(cache, entries_by_age, total_size) ==
    IF total_size > max_cache_size_mb /\ entries_by_age # <<>>
    THEN LET oldest == entries_by_age[Oldest(entries_by_age)]
         IN  RemoveOldest(_remove_cache_entry(cache, oldest.cache_key),
                          SelectSeq(entries_by_age,
                                    LAMBDA e : e.cache_key # oldest.cache_key),
                          total_size - oldest.file_size)
    ELSE cache

\* lines 193-225.  _remove_cache_entry deletes from the dict that the for
\* loop iterates over, so the step of the loop after the first removal
\* raises RuntimeError ("dictionary changed size during iteration").
_cleanup_cache(cache) ==
    LET cache_metadata == cache.cache_metadata
    IN  IF \E i \in DOMAIN cache_metadata : Stale(cache, cache_metadata[i])
        THEN LET first == CHOOSE i \in DOMAIN cache_metadata :
                              /\ Stale(cache, cache_metadata[i])
                              /\ \A j \in 1..(i - 1) : ~Stale(cache, cache_metadata[j])
             IN  [cache  |-> _remove_cache_entry(cache, cache_metadata[first].cache_key),
                  raised |-> TRUE]
        ELSE [cache  |-> RemoveOldest(cache, cache_metadata,
                                      SumOver(DOMAIN cache_metadata,
                                              [i \in DOMAIN cache_metadata |->
                                                  cache_metadata[i].file_size])),
              raised |-> FALSE]

\* line 161: self.cache_metadata[cache_key] = entry keeps the position of a
\* key that the dict holds and appends a new one
SetEntry(cache_metadata, entry) ==
    IF entry.cache_key \in Keys(cache_metadata)
    THEN [i \in DOMAIN cache_metadata |->
             IF cache_metadata[i].cache_key = entry.cache_key
             THEN entry ELSE cache_metadata[i]]
    ELSE Append(cache_metadata, entry)

\* lines 122-172; source_exists: the file at pdf_path exists, file_size: its
\* size.  Every exception is caught and turned into False.
cache_pdf(cache, cache_key, source_exists, file_size) ==
    IF ~source_exists THEN [cache |-> cache, value |-> FALSE]
    ELSE LET entry   == [cache_key  |-> cache_key,
                         created_at |-> cache.time,
                         file_size  |-> file_size]
             added   == [cache EXCEPT !.files = @ \cup {cache_key},
                                      !.cache_metadata = SetEntry(@, entry)]
             cleaned == _cleanup_cache(added)
         IN  [cache |-> cleaned.cache, value |-> ~cleaned.raised]

\* lines 84-120: the path of the cached file, or None
get_cached_pdf(cache, cache_key) ==
    IF cache_key \notin Keys(cache.cache_metadata)
    THEN [cache |-> cache, value |-> None]
    ELSE LET entry == cache.cache_metadata[
                          CHOOSE i \in DOMAIN cache.cache_metadata :
                              cache.cache_metadata[i].cache_key = cache_key]
         IN  IF Stale(cache, entry)
             THEN [cache |-> _remove_cache_entry(cache, cache_key), value |-> None]
             ELSE [cache |-> cache, value |-> Some(cache_key)]

call_cache_pdf(cache_key, source_exists, file_size) ==
    LET call == cache_pdf(pdf_cache, cache_key, source_exists, file_size)
    IN  /\ args' = [fn |-> "cache_pdf", cache_key |-> cache_key,
                    source_exists |-> source_exists, file_size |-> file_size]
        /\ result' = Some(call.value)
        /\ pdf_cache' = call.cache
        /\ UNCHANGED <<analyses, background_tasks, in_request, task, response,
                       executions, finished, nlp_service, runs>>

call_get_cached_pdf(cache_key) ==
    LET call == get_cached_pdf(pdf_cache, cache_key)
    IN  /\ args' = [fn |-> "get_cached_pdf", cache_key |-> cache_key]
        /\ result' = Some(call.value)
        /\ pdf_cache' = call.cache
        /\ UNCHANGED <<analyses, background_tasks, in_request, task, response,
                       executions, finished, nlp_service, runs>>

\* time passes between two calls
time_passes ==
    /\ pdf_cache.time + TickHours <= MaxTicks * TickHours
    /\ pdf_cache' = [pdf_cache EXCEPT !.time = @ + TickHours]
    /\ UNCHANGED <<analyses, background_tasks, in_request, task, response,
                   executions, finished, args, result, nlp_service, runs>>

\* a file of the cache directory (temp/pdf_cache) is deleted from outside
cached_file_deleted(cache_key) ==
    /\ cache_key \in pdf_cache.files
    /\ pdf_cache' = [pdf_cache EXCEPT !.files = @ \ {cache_key}]
    /\ UNCHANGED <<analyses, background_tasks, in_request, task, response,
                   executions, finished, args, result, nlp_service, runs>>

NextPdfCache ==
    \/ \E cache_key \in CacheKeys, source_exists \in BOOLEAN, file_size \in PdfSizes :
          call_cache_pdf(cache_key, source_exists, file_size)
    \/ \E cache_key \in CacheKeys : call_get_cached_pdf(cache_key)
    \/ time_passes
    \/ \E cache_key \in CacheKeys : cached_file_deleted(cache_key)

SpecPdfCache == Init /\ [][NextPdfCache]_vars

\* C30: when cache_pdf has returned, it has returned True exactly when the
\* cache metadata holds an entry for the given (resume_data, template_id),
\* and False exactly when it holds none.
C30_ReturnTellsEntryHeld ==
    result # None /\ args # None /\ args.fn = "cache_pdf"
    => (result[1] <=> args.cache_key \in Keys(pdf_cache.cache_metadata))
====
